---- MODULE Spec2Model ----
(***************************************************************************)
(* Model of the IP address range set engine of onms-discovery-config:      *)
(* the address codec (IP2Int), the interval predicates and Combine of      *)
(* IPAddressRange, IPAddressRangeSet.Add/Get, and Definition.Sort/Merge.   *)
(*                                                                         *)
(* A net.IP is a tuple of bytes.  A Go slice is modelled by the contents   *)
(* of its backing array together with its length, because Add edits the    *)
(* slice it is ranging over: the range loop keeps reading the backing      *)
(* array at the indices of the length it saw when the loop started.        *)
(***************************************************************************)
EXTENDS Integers, Sequences, FiniteSets, TLC

(***************************************************************************)
(* Bounds of the model.                                                    *)
(***************************************************************************)
\* number of consecutive addresses, from 10.0.0.254 upwards, that inputs use
NumAddrs == 5
\* number of Add calls made on one IPAddressRangeSet
MaxAdds == 4
\* number of intervals given, in two orders, to two IPAddressRangeSets
MaxOrder == 3
\* number of entries appended to one Definition
MaxEntries == 4
\* number of addresses of the longest range given to a Definition
MaxRangeLen == 3
\* number of entry calls (AddSpecific, AddIncludeRange, AddExcludeRange) made
\* on the Definition whose calls are recorded one by one
MaxCalls == 3
\* number of IncludeCIDR and ExcludeCIDR calls made on one Definition
MaxCIDRs == 2
\* Add calls on the set of SpecGet
MaxGetAdds == 3
\* lines scanned in one run of the tool, over all its input files
MaxLines == 3
\* entries of a definition loaded as a whole, over its three lists
MaxLoaded == 3
\* Merge calls on such a definition
MaxMerges == 3

(***************************************************************************)
(* Address codec.                                                          *)
(***************************************************************************)
ByteBase == 256

RECURSIVE SetBytesUpTo(_, _)
\* the first k bytes of b read as a big-endian unsigned integer
SetBytesUpTo(b, k) ==
    IF k = 0 THEN 0 ELSE SetBytesUpTo(b, k - 1) * ByteBase + b[k]

\* big.Int.SetBytes: the bytes read as a big-endian unsigned integer
SetBytes(b) == SetBytesUpTo(b, Len(b))

\* net.IPv4len
IPv4len == 4

\* net.IPv6len
IPv6len == 16

\* IP2Int: ip.SetBytes(ipaddr.To4()) for an IPv4 address, whose 4 bytes are
\* b1*2^24 + b2*2^16 + b3*2^8 + b4, and ip.SetBytes(ipaddr.To16()) otherwise;
\* To16() of a slice that is neither 4 nor 16 bytes long is nil, whose integer is 0
IP2Int(ipaddr) ==
    IF Len(ipaddr) = IPv4len
    THEN ((ipaddr[1] * ByteBase + ipaddr[2]) * ByteBase + ipaddr[3]) * ByteBase
             + ipaddr[4]
    ELSE IF Len(ipaddr) = IPv6len
    THEN SetBytes(ipaddr)
    ELSE 0

RECURSIVE Bytes(_)
\* big.Int.Bytes: the big-endian bytes of n without leading zero bytes (none
\* at all for 0)
Bytes(n) == IF n = 0 THEN <<>> ELSE Append(Bytes(n \div ByteBase), n % ByteBase)

\* Int2IP: net.IP(ipaddr.Bytes())
Int2IP(ipaddr) == Bytes(ipaddr)

\* an IPv6 address whose first twelve bytes are zero and whose last four are b
\* (not an IPv4-mapped address: bytes 11 and 12 are not 0xff)
ZeroLedIPv6(b) == [k \in 1..(IPv6len - IPv4len) |-> 0] \o b

\* the addresses given to the codec: IPv4 and IPv6 addresses with and without
\* leading zero bytes, whose integers fit the integers of the model
CodecIPs ==
    LET quads == { <<a, b, c, d>> : a \in {0, 10}, b \in {0, 1}, c \in {0, 1, 255},
                                   d \in {0, 1, 254, 255} }
    IN  quads \cup { ZeroLedIPv6(q) : q \in quads }

\* the addresses the inputs are drawn from: 10.0.0.254, 10.0.0.255, 10.0.1.0,
\* 10.0.1.1, ..., a run that crosses a byte boundary
InputIPs ==
    { <<10, 0, (254 + k) \div ByteBase, (254 + k) % ByteBase>> : k \in 0..(NumAddrs - 1) }

\* the scan parameters an interval may carry
InputParams ==
    { [Location |-> "", Retries |-> 0, Timeout |-> 0, ForeignSource |-> ""],
      [Location |-> "MINION", Retries |-> 1, Timeout |-> 2000,
       ForeignSource |-> "ApexOffice"] }

\* type IPAddressRange struct
IPAddressRange(begin, end, p) ==
    [Begin |-> begin, End |-> end, Location |-> p.Location,
     Retries |-> p.Retries, Timeout |-> p.Timeout,
     ForeignSource |-> p.ForeignSource]

\* well-formed intervals (begin <= end) given to Add
InputRanges ==
    { IPAddressRange(b, e, p) : b \in InputIPs, e \in InputIPs, p \in InputParams }

WellFormed(ipr) == IP2Int(ipr.Begin) <= IP2Int(ipr.End)

(***************************************************************************)
(* IPAddressRange methods.                                                 *)
(***************************************************************************)
\* Combine that keeps the receiver's begin whatever the argument's
CombineKeepsBegin(r, ipr) ==
    [Begin |-> r.Begin,
     End |-> IF IP2Int(ipr.End) > IP2Int(r.End) THEN ipr.End ELSE r.End,
     Location |-> r.Location, Retries |-> r.Retries, Timeout |-> r.Timeout,
     ForeignSource |-> r.ForeignSource]

\* Combine that takes the scan parameters of the argument
CombineArgParams(r, ipr) ==
    [Begin |-> IF IP2Int(ipr.Begin) < IP2Int(r.Begin) THEN ipr.Begin ELSE r.Begin,
     End |-> IF IP2Int(ipr.End) > IP2Int(r.End) THEN ipr.End ELSE r.End,
     Location |-> ipr.Location, Retries |-> ipr.Retries, Timeout |-> ipr.Timeout,
     ForeignSource |-> ipr.ForeignSource]

Combine(r, ipr) ==
    LET src_a == IP2Int(r.Begin)
        src_b == IP2Int(r.End)
        dst_a == IP2Int(ipr.Begin)
        dst_b == IP2Int(ipr.End)
        minIP == IF dst_a < src_a THEN ipr.Begin ELSE r.Begin
        maxIP == IF dst_b > src_b THEN ipr.End ELSE r.End
    IN  [Begin |-> minIP, End |-> maxIP, Location |-> r.Location,
         Retries |-> r.Retries, Timeout |-> r.Timeout,
         ForeignSource |-> r.ForeignSource]

Contains(r, ip) ==
    LET an == IP2Int(r.Begin)
        bn == IP2Int(r.End)
        n  == IP2Int(ip)
    IN  n >= an /\ n <= bn

\* Overlaps that only looks for an end of the argument inside the receiver
OverlapsArgEnds(r, ipr) ==
    \/ Contains(r, ipr.Begin)
    \/ Contains(r, ipr.End)

Overlaps(r, ipr) ==
    \/ Contains(r, ipr.Begin)
    \/ Contains(r, ipr.End)
    \/ Contains(ipr, r.Begin)
    \/ Contains(ipr, r.End)

ComesBefore(r, ipr) == IP2Int(r.End) < IP2Int(ipr.Begin)

ComesAfter(r, ipr) == IP2Int(r.Begin) > IP2Int(ipr.End)

isSuccessorOf(a, b) == IP2Int(a) = IP2Int(b) + 1

isPredecessorOf(a, b) == IP2Int(a) = IP2Int(b) - 1

comesImmediatelyAfter(r, ipr) ==
    ComesAfter(r, ipr) /\ isSuccessorOf(r.Begin, ipr.End)

comesImmediatelyBefore(r, ipr) ==
    ComesBefore(r, ipr) /\ isPredecessorOf(r.End, ipr.Begin)

\* AdjacentJoins that only looks at one side
AdjacentJoinsBeforeOnly(r, ipr) == comesImmediatelyBefore(r, ipr)

AdjacentJoins(r, ipr) ==
    comesImmediatelyBefore(r, ipr) \/ comesImmediatelyAfter(r, ipr)

Combinable(r, ipr) == Overlaps(r, ipr) \/ AdjacentJoins(r, ipr)

\* IsSingleton that compares Begin with itself
IsSingletonSelf(r) == r.Begin = r.Begin

IsSingleton(r) == r.Begin = r.End

(***************************************************************************)
(* IPAddressRangeSet.Add.                                                  *)
(*                                                                         *)
(* arr is the backing array of r.ipRanges over the indices the range loop  *)
(* visits (1..Len(arr), the length when the loop started), n the current   *)
(* len(r.ipRanges), i the 1-based position of the loop.  A slice           *)
(* expression s[low:] panics when low > len(s); s[:high] only needs        *)
(* high <= cap(s), which holds for every index the loop visits.            *)
(***************************************************************************)
\* append(r.ipRanges[:i], r.ipRanges[i+1:]...) in place, i = 0-based i0
RemoveAt(arr, n, i0) ==
    [k \in 1..Len(arr) |->
        IF k <= i0 THEN arr[k]
        ELSE IF k <= n - 1 THEN arr[k + 1]
        ELSE arr[k]]

\* append(r.ipRanges[:idx+1], r.ipRanges[idx:]...); r.ipRanges[idx] = ipr
InsertAt(arr, n, idx, ipr) ==
    SubSeq(arr, 1, idx) \o <<ipr>> \o SubSeq(arr, idx + 1, n)

RECURSIVE AddLoop(_, _, _, _)
\* the loop from position i on, and the append after it.  The outcome is
\* the new slice (ipRanges), whether the call ended in a runtime panic, and
\* for whoever still holds the old slice: array, the backing array over the
\* indices 1..Len(arr) as the call left it, and grown, whether the new slice
\* is longer than Len(arr), so that its last append either fitted the spare
\* capacity of the array or moved the slice to a new array
AddLoop(arr, n, ipr, i) ==
    IF i > Len(arr)
    THEN [ipRanges |-> SubSeq(arr, 1, n) \o <<ipr>>, panic |-> FALSE,
          array |-> IF n < Len(arr) THEN [arr EXCEPT ![n + 1] = ipr] ELSE arr,
          grown |-> n = Len(arr)]
    ELSE
        LET cur == arr[i]
            i0  == i - 1
        IN  IF ComesBefore(ipr, cur) /\ ~AdjacentJoins(ipr, cur)
            THEN LET idx == IF i0 - 1 < 0 THEN 0 ELSE i0 - 1
                 IN  IF idx > n
                     THEN [ipRanges |-> SubSeq(arr, 1, n), panic |-> TRUE,
                           array |-> arr, grown |-> FALSE]
                     ELSE [ipRanges |-> InsertAt(arr, n, idx, ipr),
                           panic |-> FALSE,
                           array |-> IF n < Len(arr)
                                     THEN InsertAt(arr, n, idx, ipr)
                                            \o SubSeq(arr, n + 2, Len(arr))
                                     ELSE arr,
                           grown |-> n = Len(arr)]
            ELSE IF Combinable(cur, ipr)
            THEN IF i0 + 1 > n
                 THEN [ipRanges |-> SubSeq(arr, 1, n), panic |-> TRUE,
                       array |-> arr, grown |-> FALSE]
                 ELSE AddLoop(RemoveAt(arr, n, i0), n - 1,
                              Combine(cur, ipr), i + 1)
            ELSE AddLoop(arr, n, ipr, i + 1)

\* the outcome of r.Add(ipr) on the slice s: the new slice, and whether the
\* call ended in a runtime panic
AddResult(s, ipr) == AddLoop(s, Len(s), ipr, 1)

\* IPAddressRangeSet.Get
Get(s) == s

(***************************************************************************)
(* Definition: the specifics, include ranges and exclude ranges of one     *)
(* definition of the discovery configuration.                              *)
(***************************************************************************)
\* zero values of the scan parameters (a Specific{IP: ip}, IncludeRange{Begin, End})
NoParams == [Location |-> "", Retries |-> 0, Timeout |-> 0, ForeignSource |-> ""]

\* type Specific struct
Specific(ip, p) ==
    [IP |-> ip, Location |-> p.Location, Retries |-> p.Retries,
     Timeout |-> p.Timeout, ForeignSource |-> p.ForeignSource]

\* type IncludeRange struct
IncludeRange(begin, end, p) ==
    [Begin |-> begin, End |-> end, Location |-> p.Location,
     Retries |-> p.Retries, Timeout |-> p.Timeout,
     ForeignSource |-> p.ForeignSource]

\* type ExcludeRange struct
ExcludeRange(begin, end, location) ==
    [Begin |-> begin, End |-> end, Location |-> location]

SpecificToIPAddressRange(s) ==
    [Begin |-> s.IP, End |-> s.IP, Location |-> s.Location,
     Retries |-> s.Retries, Timeout |-> s.Timeout,
     ForeignSource |-> s.ForeignSource]

IncludeRangeToIPAddressRange(r) ==
    [Begin |-> r.Begin, End |-> r.End, Location |-> r.Location,
     Retries |-> r.Retries, Timeout |-> r.Timeout,
     ForeignSource |-> r.ForeignSource]

ExcludeRangeToIPAddressRange(r) ==
    [Begin |-> r.Begin, End |-> r.End, Location |-> r.Location,
     Retries |-> 0, Timeout |-> 0, ForeignSource |-> ""]

\* net.ParseIP on a dotted literal given by its decimal fields: the address
\* when there are four fields, each a byte, and nil otherwise
NilIP == <<>>

\* ParseIP that takes any four decimal fields for an address
ParseIPAnyFields(literal) ==
    IF Len(literal) = IPv4len THEN literal ELSE NilIP

ParseIP(literal) ==
    IF Len(literal) = IPv4len /\ \A k \in 1..Len(literal) : literal[k] \in 0..(ByteBase - 1)
    THEN literal
    ELSE NilIP

\* a literal that is not an IP address (discovery_test.go: "192.400.0.1")
BadLiteral == <<192, 400, 0, 1>>

InputLiterals == InputIPs \cup {BadLiteral}

\* the (begin, end) literals given to AddIncludeRange and AddExcludeRange:
\* ranges of at most MaxRangeLen addresses, the same with begin and end
\* swapped, and pairs with a literal that is not an address
InputRangeLiterals ==
    { be \in InputLiterals \X InputLiterals :
        \/ be[1] = BadLiteral
        \/ be[2] = BadLiteral
        \/ /\ IP2Int(be[2]) - IP2Int(be[1]) < MaxRangeLen
           /\ IP2Int(be[1]) - IP2Int(be[2]) < MaxRangeLen }

lessSpecific(a, b) == IP2Int(a.IP) < IP2Int(b.IP)

\* the comparison Sort gives for ranges: Begin of one against End of the other
lessRange(a, b) == IP2Int(a.Begin) < IP2Int(b.End)

\* sort.SliceStable on fewer than 20 elements: one insertion sort, which
\* swaps data[j] and data[j-1] while less(j, j-1); byIP selects the
\* comparison of Specifics, otherwise that of ranges
SliceStable(data, byIP) ==
    LET less(x, y) == IF byIP THEN lessSpecific(x, y) ELSE lessRange(x, y)
        swap(d, j) == [d EXCEPT ![j] = d[j - 1], ![j - 1] = d[j]]
        RECURSIVE inner(_, _)
        inner(d, j) ==
            IF j > 1 /\ less(d[j], d[j - 1]) THEN inner(swap(d, j), j - 1) ELSE d
        RECURSIVE outer(_, _)
        outer(d, i) ==
            IF i > Len(d) THEN d ELSE outer(inner(d, i), i + 1)
    IN  outer(data, 2)

\* Definition.Sort
Sort(def) ==
    [Specifics     |-> SliceStable(def.Specifics, TRUE),
     IncludeRanges |-> SliceStable(def.IncludeRanges, FALSE),
     ExcludeRanges |-> SliceStable(def.ExcludeRanges, FALSE)]

RECURSIVE AddAll(_, _, _)
\* rangeSet.Add on items[k], items[k+1], ... in turn, starting from the
\* outcome acc; a panic ends the run
AddAll(acc, items, k) ==
    IF acc.panic \/ k > Len(items) THEN acc
    ELSE AddAll(AddResult(acc.ipRanges, items[k]), items, k + 1)

MergeSpecific(r) ==
    [IP |-> r.Begin, Location |-> r.Location, Retries |-> r.Retries,
     Timeout |-> r.Timeout, ForeignSource |-> r.ForeignSource]

MergeIncludeRange(r) ==
    [Begin |-> r.Begin, End |-> r.End, Location |-> r.Location,
     Retries |-> r.Retries, Timeout |-> r.Timeout,
     ForeignSource |-> r.ForeignSource]

MergeExcludeRange(r) ==
    [Begin |-> r.Begin, End |-> r.End, Location |-> r.Location]

NotSingleton(r) == ~IsSingleton(r)

\* the intervals Definition.Merge passes to IPAddressRangeSet.Add when
\* neither set panics: those of the include ranges, of the specifics and of
\* the exclude ranges of the sorted definition
MergeAdds(def) ==
    LET sorted == Sort(def)
    IN  { IncludeRangeToIPAddressRange(sorted.IncludeRanges[k]) :
                k \in 1..Len(sorted.IncludeRanges) }
        \cup { SpecificToIPAddressRange(sorted.Specifics[k]) :
                k \in 1..Len(sorted.Specifics) }
        \cup { ExcludeRangeToIPAddressRange(sorted.ExcludeRanges[k]) :
                k \in 1..Len(sorted.ExcludeRanges) }

\* a Merge that puts the exclude ranges into the set of the include ranges
\* and specifics as well
MergeSharedPool(def) ==
    LET sorted   == Sort(def)
        empty    == [ipRanges |-> <<>>, panic |-> FALSE]
        incs     == [k \in 1..Len(sorted.IncludeRanges) |->
                        IncludeRangeToIPAddressRange(sorted.IncludeRanges[k])]
        specs    == [k \in 1..Len(sorted.Specifics) |->
                        SpecificToIPAddressRange(sorted.Specifics[k])]
        excs     == [k \in 1..Len(sorted.ExcludeRanges) |->
                        ExcludeRangeToIPAddressRange(sorted.ExcludeRanges[k])]
        rangeSet == AddAll(AddAll(AddAll(empty, incs, 1), specs, 1), excs, 1)
        excludeSet == AddAll(empty, excs, 1)
        singles  == SelectSeq(Get(rangeSet.ipRanges), IsSingleton)
        others   == SelectSeq(Get(rangeSet.ipRanges), NotSingleton)
        excluded == Get(excludeSet.ipRanges)
        outSpecifics == [k \in 1..Len(singles) |-> MergeSpecific(singles[k])]
        outIncludes  == [k \in 1..Len(others) |-> MergeIncludeRange(others[k])]
        outExcludes  == [k \in 1..Len(excluded) |-> MergeExcludeRange(excluded[k])]
    IN  IF rangeSet.panic
        THEN [Specifics |-> sorted.Specifics, IncludeRanges |-> sorted.IncludeRanges,
              ExcludeRanges |-> sorted.ExcludeRanges, panic |-> TRUE,
              rangeSet |-> <<>>, excludeSet |-> <<>>]
        ELSE IF excludeSet.panic
        THEN [Specifics |-> outSpecifics, IncludeRanges |-> outIncludes,
              ExcludeRanges |-> sorted.ExcludeRanges, panic |-> TRUE,
              rangeSet |-> rangeSet.ipRanges, excludeSet |-> <<>>]
        ELSE [Specifics |-> outSpecifics, IncludeRanges |-> outIncludes,
              ExcludeRanges |-> outExcludes, panic |-> FALSE,
              rangeSet |-> rangeSet.ipRanges, excludeSet |-> excludeSet.ipRanges]

\* Definition.Merge: the definition it leaves, the two sets it built, and
\* whether an Add call ended it in a runtime panic
Merge(def) ==
    LET sorted   == Sort(def)
        empty    == [ipRanges |-> <<>>, panic |-> FALSE]
        incs     == [k \in 1..Len(sorted.IncludeRanges) |->
                        IncludeRangeToIPAddressRange(sorted.IncludeRanges[k])]
        specs    == [k \in 1..Len(sorted.Specifics) |->
                        SpecificToIPAddressRange(sorted.Specifics[k])]
        excs     == [k \in 1..Len(sorted.ExcludeRanges) |->
                        ExcludeRangeToIPAddressRange(sorted.ExcludeRanges[k])]
        rangeSet == AddAll(AddAll(empty, incs, 1), specs, 1)
        excludeSet == AddAll(empty, excs, 1)
        singles  == SelectSeq(Get(rangeSet.ipRanges), IsSingleton)
        others   == SelectSeq(Get(rangeSet.ipRanges), NotSingleton)
        excluded == Get(excludeSet.ipRanges)
        outSpecifics == [k \in 1..Len(singles) |-> MergeSpecific(singles[k])]
        outIncludes  == [k \in 1..Len(others) |-> MergeIncludeRange(others[k])]
        outExcludes  == [k \in 1..Len(excluded) |-> MergeExcludeRange(excluded[k])]
    IN  IF rangeSet.panic
        THEN [Specifics |-> sorted.Specifics, IncludeRanges |-> sorted.IncludeRanges,
              ExcludeRanges |-> sorted.ExcludeRanges, panic |-> TRUE,
              rangeSet |-> <<>>, excludeSet |-> <<>>]
        ELSE IF excludeSet.panic
        THEN [Specifics |-> outSpecifics, IncludeRanges |-> outIncludes,
              ExcludeRanges |-> sorted.ExcludeRanges, panic |-> TRUE,
              rangeSet |-> rangeSet.ipRanges, excludeSet |-> <<>>]
        ELSE [Specifics |-> outSpecifics, IncludeRanges |-> outIncludes,
              ExcludeRanges |-> outExcludes, panic |-> FALSE,
              rangeSet |-> rangeSet.ipRanges, excludeSet |-> excludeSet.ipRanges]

(***************************************************************************)
(* Definition.GetTotalEstimatedAddresses.  The uint32 total never wraps    *)
(* for the definitions of this model, whose totals stay far below 2^32.    *)
(***************************************************************************)
\* excludeRangesContain that leaves out the last address of each range
excludeRangesContainOpenEnd(def, ipaddr) ==
    \E k \in 1..Len(def.ExcludeRanges) :
        /\ ipaddr >= IP2Int(def.ExcludeRanges[k].Begin)
        /\ ipaddr < IP2Int(def.ExcludeRanges[k].End)

\* Definition.excludeRangesContain
excludeRangesContain(def, ipaddr) ==
    \E k \in 1..Len(def.ExcludeRanges) :
        /\ ipaddr >= IP2Int(def.ExcludeRanges[k].Begin)
        /\ ipaddr <= IP2Int(def.ExcludeRanges[k].End)

RECURSIVE TotalOfRanges(_, _)
\* the first loop of GetTotalEstimatedAddresses, from the k-th include range
\* on: for each range, one more for every i in a..b that
\* excludeRangesContain rejects
TotalOfRanges(def, k) ==
    IF k > Len(def.IncludeRanges) THEN 0
    ELSE LET a == IP2Int(def.IncludeRanges[k].Begin)
             b == IP2Int(def.IncludeRanges[k].End)
         IN  Cardinality({ i \in a..b : ~excludeRangesContain(def, i) })
                + TotalOfRanges(def, k + 1)

\* the second loop: one more for every specific (every entry of the list,
\* whatever its address) that excludeRangesContain rejects
TotalOfSpecifics(def) ==
    Cardinality({ k \in 1..Len(def.Specifics) :
                    ~excludeRangesContain(def, IP2Int(def.Specifics[k].IP)) })

GetTotalEstimatedAddresses(def) == TotalOfRanges(def, 1) + TotalOfSpecifics(def)

(***************************************************************************)
(* Definition.getRange, IncludeCIDR and ExcludeCIDR.  A CIDR literal is    *)
(* given by its address literal and its prefix length.                     *)
(***************************************************************************)
\* the byte b with only its m leading bits kept (0 <= m <= 8)
MaskByte(b, m) == (b \div 2^(8 - m)) * 2^(8 - m)

\* net.ParseCIDR: an error when the address is none or the prefix length is
\* out of range, and otherwise the network: the address under the mask of
\* prefixLen leading ones, the prefix length, and the width in bits
ParseCIDR(cidr) ==
    LET ip == ParseIP(cidr.ip)
    IN  IF ip = NilIP \/ cidr.prefixLen \notin 0..(8 * Len(ip))
        THEN [err |-> TRUE]
        ELSE [err |-> FALSE,
              IP |-> [k \in 1..Len(ip) |->
                        LET m == cidr.prefixLen - 8 * (k - 1)
                        IN  MaskByte(ip[k], IF m < 0 THEN 0 ELSE IF m > 8 THEN 8 ELSE m)],
              prefixLen |-> cidr.prefixLen,
              bits |-> 8 * Len(ip)]

RECURSIVE Or(_, _)
\* big.Int.Or of two non-negative integers
Or(x, y) ==
    IF x = 0 THEN y
    ELSE IF y = 0 THEN x
    ELSE (IF x % 2 = 1 \/ y % 2 = 1 THEN 1 ELSE 0) + 2 * Or(x \div 2, y \div 2)

\* b++ and b-- on a byte
IncByte(b) == (b + 1) % ByteBase
DecByte(b) == (b + ByteBase - 1) % ByteBase

\* Definition.getRange: the error of ParseCIDR, or the two addresses it
\* returns; panic when it indexes the last byte of an empty lastIP
getRange(cidr) ==
    LET network == ParseCIDR(cidr)
    IN  IF network.err
        THEN [err |-> TRUE, panic |-> FALSE, Begin |-> NilIP, End |-> NilIP]
        ELSE
            LET firstIP    == network.IP
                firstIPInt == IP2Int(firstIP)
                hostLen    == network.bits - network.prefixLen
                lastIPInt  == Or(2^hostLen - 1, firstIPInt)
                lastIP     == Int2IP(lastIPInt)
            IN  IF Len(lastIP) = 0
                THEN [err |-> FALSE, panic |-> TRUE,
                      Begin |-> [firstIP EXCEPT ![Len(firstIP)] = IncByte(@)],
                      End |-> lastIP]
                ELSE [err |-> FALSE, panic |-> FALSE,
                      Begin |-> [firstIP EXCEPT ![Len(firstIP)] = IncByte(@)],
                      End |-> [lastIP EXCEPT ![Len(lastIP)] = DecByte(@)]]

\* net.IP.String as a literal: the dotted fields of a 4-byte address, and for
\* a slice of another length "?" followed by its hex digits, no address
IPString(ip) == IF Len(ip) = IPv4len THEN ip ELSE <<-1>> \o ip

\* AddIncludeRange without the comparison of the two addresses
AppendIncludeRangeUnchecked(ranges, begin, end) ==
    LET beginIP == ParseIP(begin)
        endIP   == ParseIP(end)
    IN  IF beginIP = NilIP \/ endIP = NilIP THEN ranges
        ELSE Append(ranges, IncludeRange(beginIP, endIP, NoParams))

\* the list AddIncludeRange(begin, end) leaves of the list of include ranges
AppendIncludeRange(ranges, begin, end) ==
    LET beginIP == ParseIP(begin)
        endIP   == ParseIP(end)
    IN  IF beginIP = NilIP \/ endIP = NilIP THEN ranges
        ELSE IF IP2Int(endIP) >= IP2Int(beginIP)
        THEN Append(ranges, IncludeRange(beginIP, endIP, NoParams))
        ELSE ranges

\* the list AddExcludeRange(begin, end) leaves of the list of exclude ranges
AppendExcludeRange(ranges, begin, end) ==
    LET beginIP == ParseIP(begin)
        endIP   == ParseIP(end)
    IN  IF beginIP = NilIP \/ endIP = NilIP THEN ranges
        ELSE IF IP2Int(endIP) >= IP2Int(beginIP)
        THEN Append(ranges, ExcludeRange(beginIP, endIP, ""))
        ELSE ranges

\* the prefix lengths of the CIDR literals given; 33 is out of range for IPv4
CIDRPrefixLens == {8, 24, 30, 31, 32, 33}

\* the CIDR literals given to getRange, IncludeCIDR and ExcludeCIDR
InputCIDRs ==
    { [ip |-> a, prefixLen |-> n] :
        a \in InputLiterals \cup {<<0, 0, 0, 0>>, <<0, 0, 1, 0>>}, n \in CIDRPrefixLens }

(***************************************************************************)
(* State.                                                                  *)
(***************************************************************************)
VARIABLES
    \* one IPAddressRangeSet, Add called on it
    ipRanges,   \* IPAddressRangeSet.ipRanges
    panicked,   \* an Add call aborted the program with a runtime panic
    lastAdd,    \* the argument of the latest Add call (<<>> before the first)
    prevRanges, \* r.ipRanges before the latest Add call
    inserted,   \* the addresses (as integers) of the intervals given to Add so far
    nAdds,      \* number of Add calls so far
    \* two IPAddressRangeSets given the same intervals, each in its own order
    setA, setB,     \* ipRanges of the two sets
    todoA, todoB,   \* the intervals not yet given to each set
    orderPanic,     \* an Add call on either set panicked
    \* one call of IPAddressRange.Combine
    cmbRecv,        \* the interval Combine is invoked on
    cmbArg,         \* its argument
    cmbOut,         \* the interval it returned (<<>> before the call)
    \* one Definition
    Specifics, IncludeRanges, ExcludeRanges,    \* the fields of the Definition
    defPanicked,    \* Merge aborted the program with a runtime panic
    merged,         \* the latest operation on the definition was a Merge that returned
    rangeSet,       \* rangeSet.Get() of that Merge (<<>> when merged is FALSE)
    excludeSet,     \* excludeSet.Get() of that Merge (<<>> when merged is FALSE)
    nEntries,       \* number of entries appended to the definition so far
    \* the calls made on that Definition, recorded one by one
    lastCall,       \* the latest call: its name and arguments ([op |-> "none"] at first)
    prevDef,        \* the three lists of the definition before that call
    returned,       \* what that call returned to its caller ("nothing": no result)
    nCalls,         \* number of entry calls so far
    \* one address taken through the codec
    codecIn,        \* the address given to IP2Int
    codecInt,       \* IP2Int of it (-1 before the call)
    codecOut,       \* Int2IP of that integer (<<-1>> before the call)
    \* one IPAddressRangeSet as it lies in memory, and a caller holding the
    \* result of an earlier Get
    backing,        \* the array under r.ipRanges, all cap(r.ipRanges) slots of it
    length,         \* len(r.ipRanges)
    getPanic,       \* an Add call on this set panicked
    nGetAdds,       \* number of Add calls on this set so far
    snapTaken,      \* Get has been called and its result is held
    snapShared,     \* that result still lies over the array under r.ipRanges
    snapArray,      \* the array under that result once r.ipRanges has left it
    snapLen,        \* len of that result
    snapOrig,       \* the elements of that result when Get returned it
    \* one run of the tool (func main); its definition def is the Definition above
    flagIdx,            \* which of the six file flags main has come to (7: past them)
    opened,             \* the file of that flag is open and being scanned
    status,             \* "running", "exited" (main returned) or "fatal" (log.Fatal)
    dryRun,             \* the -dry-run flag
    addressBlackList,   \* the keys of the map addressBlackList
    addressWhiteList,   \* the keys of the map addressWhiteList
    nLines,             \* number of lines scanned so far
    excludedCIDRs,      \* the CIDR literals read from the -exc-cidr file so far
    excludeListed,      \* the addresses read from the -exc-list file so far
    destContent,        \* what etc/discovery-configuration.xml holds (NoFile: no such file)
    destAtStart,        \* what it held when the tool started
    writeCalled,        \* os.WriteFile has been called on it
    sendCalled,         \* log.Send has been called
    printed,            \* the configuration logged as generated (<<>>: none yet)
    \* one call of DiscoveryConfiguration.UpdateOpenNMS, statement by statement
    updPC,          \* the statement the call has come to ("idle": no call)
    updCfg,         \* the configuration it is called on
    updPort,        \* its argument onmsPort
    updDest,        \* what etc/discovery-configuration.xml holds
    updDestAtCall,  \* what it held when the call began
    updCurrent,     \* the configuration read from it (<<>>: not read)
    updRead,        \* how ioutil.ReadFile went: "untried", "ok" or "failed"
    updWrite,       \* how os.WriteFile went
    updSend,        \* how log.Send went: "untried", "sent", "dial failed", "write failed"
    updErr,         \* what the call returned ("pending" until it returns, "nil": no error)
    updReceived,    \* the messages that arrived at a TCP port, in order
    \* the rest of the Definition, for a definition loaded with its entries
    defAttrs,       \* its attributes, detectors and include URLs
    loadedAttrs,    \* the same when the definition was loaded
    \* the relations of two intervals (those of Combine: cmbRecv and cmbArg)
    relations       \* what the methods returned for them (<<>> before the calls)

setVars == <<ipRanges, panicked, lastAdd, prevRanges, inserted, nAdds>>
orderVars == <<setA, setB, todoA, todoB, orderPanic>>
defVars == <<Specifics, IncludeRanges, ExcludeRanges, defPanicked, merged,
             rangeSet, excludeSet, nEntries>>
combineVars == <<cmbRecv, cmbArg, cmbOut>>
callVars == <<lastCall, prevDef, returned, nCalls>>
codecVars == <<codecIn, codecInt, codecOut>>
getVars == <<backing, length, getPanic, nGetAdds, snapTaken, snapShared,
             snapArray, snapLen, snapOrig>>
mainVars == <<flagIdx, opened, status, dryRun, addressBlackList, addressWhiteList,
              nLines, excludedCIDRs, excludeListed, destContent, destAtStart,
              writeCalled, sendCalled, printed>>
updVars == <<updPC, updCfg, updPort, updDest, updDestAtCall, updCurrent, updRead,
             updWrite, updSend, updErr, updReceived>>
\* the variables of the specifications up to SpecEntries, and those of the later ones
coreVars == <<setVars, orderVars, combineVars, defVars, callVars>>
mergeVars == <<defAttrs, loadedAttrs>>
relVars == <<relations>>
tailVars == <<updVars, mergeVars, relVars>>
restVars == <<codecVars, getVars, mainVars, tailVars>>
vars == <<setVars, orderVars, combineVars, defVars, callVars, codecVars, getVars,
          mainVars, updVars, mergeVars, relVars>>

SetInit ==
    /\ ipRanges = <<>>
    /\ panicked = FALSE
    /\ lastAdd = <<>>
    /\ prevRanges = <<>>
    /\ inserted = {}
    /\ nAdds = 0

OrderIdle ==
    /\ setA = <<>>
    /\ setB = <<>>
    /\ todoA = {}
    /\ todoB = {}
    /\ orderPanic = FALSE

CombineIdle ==
    /\ cmbRecv = <<>>
    /\ cmbArg = <<>>
    /\ cmbOut = <<>>

\* def := new(Definition)
DefInit ==
    /\ Specifics = <<>>
    /\ IncludeRanges = <<>>
    /\ ExcludeRanges = <<>>
    /\ defPanicked = FALSE
    /\ merged = FALSE
    /\ rangeSet = <<>>
    /\ excludeSet = <<>>
    /\ nEntries = 0

\* the Definition as one value
Def == [Specifics |-> Specifics, IncludeRanges |-> IncludeRanges,
        ExcludeRanges |-> ExcludeRanges]

CallIdle ==
    /\ lastCall = [op |-> "none"]
    /\ prevDef = Def
    /\ returned = "nothing"
    /\ nCalls = 0

CodecIdle ==
    /\ codecIn = <<>>
    /\ codecInt = -1
    /\ codecOut = <<-1>>

\* the variables of the later specifications, at rest
GetIdle ==
    /\ backing = <<>>
    /\ length = 0
    /\ getPanic = FALSE
    /\ nGetAdds = 0
    /\ snapTaken = FALSE
    /\ snapShared = FALSE
    /\ snapArray = <<>>
    /\ snapLen = 0
    /\ snapOrig = <<>>

\* no file at the destination
NoFile == [file |-> "none"]

MainIdle ==
    /\ flagIdx = 1
    /\ opened = FALSE
    /\ status = "running"
    /\ dryRun = FALSE
    /\ addressBlackList = {}
    /\ addressWhiteList = {}
    /\ nLines = 0
    /\ excludedCIDRs = {}
    /\ excludeListed = {}
    /\ destContent = NoFile
    /\ destAtStart = NoFile
    /\ writeCalled = FALSE
    /\ sendCalled = FALSE
    /\ printed = <<>>

UpdIdle ==
    /\ updPC = "idle"
    /\ updCfg = <<>>
    /\ updPort = 0
    /\ updDest = NoFile
    /\ updDestAtCall = NoFile
    /\ updCurrent = <<>>
    /\ updRead = "untried"
    /\ updWrite = "untried"
    /\ updSend = "untried"
    /\ updErr = "pending"
    /\ updReceived = <<>>

\* the variables of the specifications after SpecMain, at rest
TailIdle == UpdIdle /\ defAttrs = <<>> /\ loadedAttrs = <<>> /\ relations = <<>>

RestIdle == CodecIdle /\ GetIdle /\ MainIdle /\ TailIdle

(***************************************************************************)
(* Spec: one interval set, Add called on it with well-formed intervals.    *)
(***************************************************************************)
Init == SetInit /\ OrderIdle /\ CombineIdle /\ DefInit /\ CallIdle /\ RestIdle

Add(ipr) ==
    /\ ~panicked
    /\ nAdds < MaxAdds
    /\ WellFormed(ipr)
    /\ \E res \in { AddResult(ipRanges, ipr) } :
           /\ ipRanges' = res.ipRanges
           /\ panicked' = res.panic
    /\ lastAdd' = ipr
    /\ prevRanges' = ipRanges
    /\ inserted' = inserted \cup (IP2Int(ipr.Begin)..IP2Int(ipr.End))
    /\ nAdds' = nAdds + 1
    /\ UNCHANGED <<orderVars, combineVars, defVars, callVars, restVars>>

Next == \E ipr \in InputRanges : Add(ipr)

Spec == Init /\ [][Next]_vars

(***************************************************************************)
(* SpecOrder: a set of well-formed intervals is chosen, and two fresh      *)
(* interval sets are each given all of them, one Add at a time, in any     *)
(* order.                                                                  *)
(***************************************************************************)
\* well-formed intervals without scan parameters
PlainRanges ==
    { r \in { IPAddressRange(b, e, NoParams) : b \in InputIPs, e \in InputIPs } :
        WellFormed(r) }

InitOrder ==
    /\ SetInit
    /\ CombineIdle
    /\ DefInit
    /\ CallIdle
    /\ RestIdle
    /\ setA = <<>>
    /\ setB = <<>>
    /\ orderPanic = FALSE
    /\ \E S \in SUBSET PlainRanges :
        /\ Cardinality(S) <= MaxOrder
        /\ todoA = S
        /\ todoB = S

AddA(ipr) ==
    /\ ~orderPanic
    /\ ipr \in todoA
    /\ \E res \in { AddResult(setA, ipr) } :
           /\ setA' = res.ipRanges
           /\ orderPanic' = res.panic
    /\ todoA' = todoA \ {ipr}
    /\ UNCHANGED <<setB, todoB, setVars, combineVars, defVars, callVars, restVars>>

AddB(ipr) ==
    /\ ~orderPanic
    /\ ipr \in todoB
    /\ \E res \in { AddResult(setB, ipr) } :
           /\ setB' = res.ipRanges
           /\ orderPanic' = res.panic
    /\ todoB' = todoB \ {ipr}
    /\ UNCHANGED <<setA, todoA, setVars, combineVars, defVars, callVars, restVars>>

NextOrder ==
    \/ \E ipr \in PlainRanges : AddA(ipr)
    \/ \E ipr \in PlainRanges : AddB(ipr)

SpecOrder == InitOrder /\ [][NextOrder]_vars

(***************************************************************************)
(* SpecCombine: Combine called once, on any well-formed interval with any  *)
(* well-formed argument.                                                   *)
(***************************************************************************)
InitCombine ==
    /\ SetInit
    /\ OrderIdle
    /\ DefInit
    /\ CallIdle
    /\ RestIdle
    /\ cmbRecv \in { r \in InputRanges : WellFormed(r) }
    /\ cmbArg \in { r \in InputRanges : WellFormed(r) }
    /\ cmbOut = <<>>

CombineCall ==
    /\ cmbOut = <<>>
    /\ cmbOut' = Combine(cmbRecv, cmbArg)
    /\ UNCHANGED <<cmbRecv, cmbArg, setVars, orderVars, defVars, callVars, restVars>>

NextCombine == CombineCall

SpecCombine == InitCombine /\ [][NextCombine]_vars

(***************************************************************************)
(* SpecDef: one Definition, built with AddSpecific, AddIncludeRange and    *)
(* AddExcludeRange, and merged.                                            *)
(***************************************************************************)
InitDef == SetInit /\ OrderIdle /\ CombineIdle /\ DefInit /\ CallIdle /\ RestIdle

AddSpecific(specific) ==
    /\ ~defPanicked
    /\ nEntries < MaxEntries
    /\ LET ip == ParseIP(specific)
       IN  IF ip = NilIP
           THEN UNCHANGED defVars
           ELSE /\ Specifics' = Append(Specifics, Specific(ip, NoParams))
                /\ nEntries' = nEntries + 1
                /\ merged' = FALSE
                /\ rangeSet' = <<>>
                /\ excludeSet' = <<>>
                /\ UNCHANGED <<IncludeRanges, ExcludeRanges, defPanicked>>
    /\ UNCHANGED <<setVars, orderVars, combineVars, callVars, restVars>>

AddIncludeRange(begin, end) ==
    /\ ~defPanicked
    /\ nEntries < MaxEntries
    /\ LET beginIP == ParseIP(begin)
           endIP   == ParseIP(end)
       IN  IF beginIP = NilIP \/ endIP = NilIP
           THEN UNCHANGED defVars
           ELSE IF IP2Int(endIP) >= IP2Int(beginIP)
           THEN /\ IncludeRanges' =
                        Append(IncludeRanges, IncludeRange(beginIP, endIP, NoParams))
                /\ nEntries' = nEntries + 1
                /\ merged' = FALSE
                /\ rangeSet' = <<>>
                /\ excludeSet' = <<>>
                /\ UNCHANGED <<Specifics, ExcludeRanges, defPanicked>>
           ELSE UNCHANGED defVars
    /\ UNCHANGED <<setVars, orderVars, combineVars, callVars, restVars>>

AddExcludeRange(begin, end) ==
    /\ ~defPanicked
    /\ nEntries < MaxEntries
    /\ LET beginIP == ParseIP(begin)
           endIP   == ParseIP(end)
       IN  IF beginIP = NilIP \/ endIP = NilIP
           THEN UNCHANGED defVars
           ELSE IF IP2Int(endIP) >= IP2Int(beginIP)
           THEN /\ ExcludeRanges' =
                        Append(ExcludeRanges, ExcludeRange(beginIP, endIP, ""))
                /\ nEntries' = nEntries + 1
                /\ merged' = FALSE
                /\ rangeSet' = <<>>
                /\ excludeSet' = <<>>
                /\ UNCHANGED <<Specifics, IncludeRanges, defPanicked>>
           ELSE UNCHANGED defVars
    /\ UNCHANGED <<setVars, orderVars, combineVars, callVars, restVars>>

DoMerge ==
    /\ ~defPanicked
    /\ \E res \in { Merge([Specifics |-> Specifics, IncludeRanges |-> IncludeRanges,
                            ExcludeRanges |-> ExcludeRanges]) } :
           /\ Specifics' = res.Specifics
           /\ IncludeRanges' = res.IncludeRanges
           /\ ExcludeRanges' = res.ExcludeRanges
           /\ defPanicked' = res.panic
           /\ merged' = ~res.panic
           /\ rangeSet' = res.rangeSet
           /\ excludeSet' = res.excludeSet
    /\ UNCHANGED <<nEntries, setVars, orderVars, combineVars, callVars, restVars>>

NextDef ==
    \/ \E specific \in InputLiterals : AddSpecific(specific)
    \/ \E be \in InputRangeLiterals : AddIncludeRange(be[1], be[2])
    \/ \E be \in InputRangeLiterals : AddExcludeRange(be[1], be[2])
    \/ DoMerge

SpecDef == InitDef /\ [][NextDef]_vars

(***************************************************************************)
(* SpecEntries: one Definition on which AddSpecific, AddIncludeRange,      *)
(* AddExcludeRange and GetTotalEstimatedAddresses are called, each call    *)
(* recorded with its arguments, the definition before it and what it       *)
(* returned.  None of the three entry methods has a result.                *)
(***************************************************************************)
InitEntries == SetInit /\ OrderIdle /\ CombineIdle /\ DefInit /\ CallIdle /\ RestIdle

defIdle == <<defPanicked, merged, rangeSet, excludeSet, nEntries>>

CallAddSpecific(specific) ==
    /\ ~defPanicked
    /\ nCalls < MaxCalls
    /\ LET ip == ParseIP(specific)
       IN  IF ip = NilIP
           THEN UNCHANGED Specifics
           ELSE Specifics' = Append(Specifics, Specific(ip, NoParams))
    /\ lastCall' = [op |-> "AddSpecific", specific |-> specific]
    /\ prevDef' = Def
    /\ returned' = "nothing"
    /\ nCalls' = nCalls + 1
    /\ UNCHANGED <<IncludeRanges, ExcludeRanges, defIdle, setVars, orderVars, combineVars, restVars>>

CallAddIncludeRange(begin, end) ==
    /\ ~defPanicked
    /\ nCalls < MaxCalls
    /\ LET beginIP == ParseIP(begin)
           endIP   == ParseIP(end)
       IN  IF beginIP = NilIP \/ endIP = NilIP
           THEN UNCHANGED IncludeRanges
           ELSE IF IP2Int(endIP) >= IP2Int(beginIP)
           THEN IncludeRanges' =
                    Append(IncludeRanges, IncludeRange(beginIP, endIP, NoParams))
           ELSE UNCHANGED IncludeRanges
    /\ lastCall' = [op |-> "AddIncludeRange", begin |-> begin, end |-> end]
    /\ prevDef' = Def
    /\ returned' = "nothing"
    /\ nCalls' = nCalls + 1
    /\ UNCHANGED <<Specifics, ExcludeRanges, defIdle, setVars, orderVars, combineVars, restVars>>

CallAddExcludeRange(begin, end) ==
    /\ ~defPanicked
    /\ nCalls < MaxCalls
    /\ LET beginIP == ParseIP(begin)
           endIP   == ParseIP(end)
       IN  IF beginIP = NilIP \/ endIP = NilIP
           THEN UNCHANGED ExcludeRanges
           ELSE IF IP2Int(endIP) >= IP2Int(beginIP)
           THEN ExcludeRanges' =
                    Append(ExcludeRanges, ExcludeRange(beginIP, endIP, ""))
           ELSE UNCHANGED ExcludeRanges
    /\ lastCall' = [op |-> "AddExcludeRange", begin |-> begin, end |-> end]
    /\ prevDef' = Def
    /\ returned' = "nothing"
    /\ nCalls' = nCalls + 1
    /\ UNCHANGED <<Specifics, IncludeRanges, defIdle, setVars, orderVars, combineVars, restVars>>

CallGetTotalEstimatedAddresses ==
    /\ lastCall' = [op |-> "GetTotalEstimatedAddresses"]
    /\ prevDef' = Def
    /\ returned' = GetTotalEstimatedAddresses(Def)
    /\ UNCHANGED <<nCalls, defVars, setVars, orderVars, combineVars, restVars>>

NextEntries ==
    \/ \E specific \in InputLiterals : CallAddSpecific(specific)
    \/ \E be \in InputRangeLiterals : CallAddIncludeRange(be[1], be[2])
    \/ \E be \in InputRangeLiterals : CallAddExcludeRange(be[1], be[2])
    \/ CallGetTotalEstimatedAddresses

SpecEntries == InitEntries /\ [][NextEntries]_vars

(***************************************************************************)
(* SpecCodec: one address is converted to its integer and back.            *)
(***************************************************************************)
InitCodec ==
    /\ SetInit /\ OrderIdle /\ CombineIdle /\ DefInit /\ CallIdle /\ GetIdle
    /\ MainIdle /\ TailIdle
    /\ codecIn \in CodecIPs
    /\ codecInt = -1
    /\ codecOut = <<-1>>

Encode ==
    /\ codecInt = -1
    /\ codecInt' = IP2Int(codecIn)
    /\ UNCHANGED <<codecIn, codecOut, coreVars, getVars, mainVars, tailVars>>

Decode ==
    /\ codecInt # -1
    /\ codecOut = <<-1>>
    /\ codecOut' = Int2IP(codecInt)
    /\ UNCHANGED <<codecIn, codecInt, coreVars, getVars, mainVars, tailVars>>

NextCodec == Encode \/ Decode

SpecCodec == InitCodec /\ [][NextCodec]_vars

(***************************************************************************)
(* SpecCIDR: one Definition on which getRange, IncludeCIDR and ExcludeCIDR *)
(* are called, each call recorded as in SpecEntries.                       *)
(***************************************************************************)
InitCIDR == SetInit /\ OrderIdle /\ CombineIdle /\ DefInit /\ CallIdle /\ RestIdle

CallGetRange(cidr) ==
    /\ ~defPanicked
    /\ \E res \in { getRange(cidr) } :
        /\ returned' = res
        /\ defPanicked' = res.panic
    /\ lastCall' = [op |-> "getRange", cidr |-> cidr]
    /\ prevDef' = Def
    /\ UNCHANGED <<Specifics, IncludeRanges, ExcludeRanges, merged, rangeSet,
                   excludeSet, nEntries, nCalls, setVars, orderVars, combineVars, restVars>>

CallIncludeCIDR(cidr) ==
    /\ ~defPanicked
    /\ nCalls < MaxCIDRs
    /\ \E res \in { getRange(cidr) } :
        /\ defPanicked' = res.panic
        /\ IncludeRanges' =
                IF res.panic \/ res.err THEN IncludeRanges
                ELSE AppendIncludeRange(IncludeRanges, IPString(res.Begin), IPString(res.End))
    /\ lastCall' = [op |-> "IncludeCIDR", cidr |-> cidr]
    /\ prevDef' = Def
    /\ returned' = "nothing"
    /\ nCalls' = nCalls + 1
    /\ UNCHANGED <<Specifics, ExcludeRanges, merged, rangeSet, excludeSet, nEntries,
                   setVars, orderVars, combineVars, restVars>>

CallExcludeCIDR(cidr) ==
    /\ ~defPanicked
    /\ nCalls < MaxCIDRs
    /\ \E res \in { getRange(cidr) } :
        /\ defPanicked' = res.panic
        /\ ExcludeRanges' =
                IF res.panic \/ res.err THEN ExcludeRanges
                ELSE AppendExcludeRange(ExcludeRanges, IPString(res.Begin), IPString(res.End))
    /\ lastCall' = [op |-> "ExcludeCIDR", cidr |-> cidr]
    /\ prevDef' = Def
    /\ returned' = "nothing"
    /\ nCalls' = nCalls + 1
    /\ UNCHANGED <<Specifics, IncludeRanges, merged, rangeSet, excludeSet, nEntries,
                   setVars, orderVars, combineVars, restVars>>

NextCIDR ==
    \/ \E cidr \in InputCIDRs : CallGetRange(cidr)
    \/ \E cidr \in InputCIDRs : CallIncludeCIDR(cidr)
    \/ \E cidr \in InputCIDRs : CallExcludeCIDR(cidr)

SpecCIDR == InitCIDR /\ [][NextCIDR]_vars

(***************************************************************************)
(* SpecGet: one interval set with its slice laid out in memory (backing    *)
(* array, len, cap).  Add is called on it, and at some point Get is called *)
(* and the caller keeps what it returned.                                  *)
(***************************************************************************)
InitGet ==
    /\ SetInit /\ OrderIdle /\ CombineIdle /\ DefInit /\ CallIdle /\ CodecIdle
    /\ GetIdle /\ MainIdle /\ TailIdle

\* the zero value of IPAddressRange, which fills the unused slots of an array
ZeroRange == IPAddressRange(NilIP, NilIP, NoParams)

\* a new array of newcap slots holding the elements of s
Allocate(s, newcap) == [k \in 1..newcap |-> IF k <= Len(s) THEN s[k] ELSE ZeroRange]

\* the capacities append may give the slice when cap slots are too few for
\* needed elements
GrownCaps(cap, needed) == needed..(IF 2 * cap > needed THEN 2 * cap ELSE needed)

\* the elements of r.ipRanges: the first len slots of its array
Slice == SubSeq(backing, 1, length)

\* the elements the caller sees now in the slice Get returned earlier
Snapshot == SubSeq(IF snapShared THEN backing ELSE snapArray, 1, snapLen)

\* a caller calls Get and keeps the result: the slice r.ipRanges itself
GetCall ==
    /\ ~getPanic
    /\ ~snapTaken
    /\ snapTaken' = TRUE
    /\ snapShared' = TRUE
    /\ snapLen' = length
    /\ snapOrig' = Get(Slice)
    /\ UNCHANGED <<backing, length, getPanic, nGetAdds, snapArray, coreVars, codecVars,
                   mainVars, tailVars>>

\* r.Add(ipr) on the slice in memory: the removals and the insertions that
\* fit the array are made in place; an append beyond the capacity moves
\* r.ipRanges to a new array and leaves the old one to whoever holds it
GetAdd(ipr) ==
    /\ ~getPanic
    /\ nGetAdds < MaxGetAdds
    /\ nGetAdds' = nGetAdds + 1
    /\ \E res \in { AddResult(Slice, ipr) } :
        /\ getPanic' = res.panic
        /\ length' = Len(res.ipRanges)
        /\ IF ~res.grown
           THEN /\ backing' = res.array \o SubSeq(backing, length + 1, Len(backing))
                /\ UNCHANGED <<snapShared, snapArray>>
           ELSE IF Len(backing) >= length + 1
           THEN /\ backing' = res.ipRanges \o SubSeq(backing, length + 2, Len(backing))
                /\ UNCHANGED <<snapShared, snapArray>>
           ELSE \E newcap \in GrownCaps(Len(backing), length + 1) :
                /\ backing' = Allocate(res.ipRanges, newcap)
                /\ snapShared' = FALSE
                /\ snapArray' = IF snapShared THEN backing ELSE snapArray
    /\ UNCHANGED <<snapTaken, snapLen, snapOrig, coreVars, codecVars, mainVars,
                   tailVars>>

NextGet ==
    \/ GetCall
    \/ \E ipr \in PlainRanges : GetAdd(ipr)

SpecGet == InitGet /\ [][NextGet]_vars

(***************************************************************************)
(* SpecMain: one run of the tool.  main goes through its six file flags in *)
(* order; a flag is empty, or its file fails to open, or the file is       *)
(* scanned line by line to its end.  Then main sorts and prints the        *)
(* configuration and, unless -dry-run is set, calls UpdateOpenNMS.         *)
(***************************************************************************)
\* the file flags in the order main handles them
Flags == <<"inc-cidr", "exc-cidr", "exc-list", "inc-list", "inc-dns", "inc-hexnnmi">>

\* a line of text: what it says, and whether white space surrounds that
Line(text, space) == [text |-> text, space |-> space]

\* strings.TrimSpace
TrimSpace(s) == [s EXCEPT !.space = FALSE]

\* net.ParseIP on a string: no address when white space surrounds the literal
ParseIPString(s) == IF s.space THEN NilIP ELSE ParseIP(s.text)

RECURSIVE Compare(_, _)
\* bytes.Compare: -1, 0 or 1 by the lexicographic order of the bytes
Compare(a, b) ==
    IF Len(a) = 0 /\ Len(b) = 0 THEN 0
    ELSE IF Len(a) = 0 THEN -1
    ELSE IF Len(b) = 0 THEN 1
    ELSE IF Head(a) < Head(b) THEN -1
    ELSE IF Head(a) > Head(b) THEN 1
    ELSE Compare(Tail(a), Tail(b))

\* Definition.IncludeRangesContain
IncludeRangesContain(def, ipaddr) ==
    LET ip == ParseIPString(ipaddr)
    IN  /\ ip # NilIP
        /\ \E k \in 1..Len(def.IncludeRanges) :
                /\ Compare(ip, def.IncludeRanges[k].Begin) >= 0
                /\ Compare(ip, def.IncludeRanges[k].End) <= 0

\* ExcludeRangesContain without the comparison with the end of the range
ExcludeRangesContainBeginOnly(def, ipaddr) ==
    LET ip == ParseIPString(ipaddr)
    IN  /\ ip # NilIP
        /\ \E k \in 1..Len(def.ExcludeRanges) :
                Compare(ip, def.ExcludeRanges[k].Begin) >= 0

\* Definition.ExcludeRangesContain
ExcludeRangesContain(def, ipaddr) ==
    LET ip == ParseIPString(ipaddr)
    IN  /\ ip # NilIP
        /\ \E k \in 1..Len(def.ExcludeRanges) :
                /\ Compare(ip, def.ExcludeRanges[k].Begin) >= 0
                /\ Compare(ip, def.ExcludeRanges[k].End) <= 0

\* addSpecific(def, ip) of main: the specifics of def and the keys of
\* addressWhiteList it leaves
addSpecific(def, ip) ==
    LET ignored == [Specifics |-> def.Specifics, addressWhiteList |-> addressWhiteList]
    IN  IF ParseIPString(ip) = NilIP THEN ignored
        ELSE IF ip \in addressBlackList THEN ignored
        ELSE IF ExcludeRangesContain(def, ip) THEN ignored
        ELSE IF IncludeRangesContain(def, ip) THEN ignored
        ELSE IF ip \notin addressWhiteList
        THEN [Specifics |-> Append(def.Specifics, Specific(ParseIPString(ip), NoParams)),
              addressWhiteList |-> addressWhiteList \cup {ip}]
        ELSE ignored

\* the lines of the address lists: each literal, bare and with white space
ListLines == { Line(lit, sp) : lit \in InputLiterals, sp \in BOOLEAN }

\* the CIDR literals of the CIDR files: blocks of 256 and of 4 addresses, and
\* a malformed one
MainCIDRs ==
    { [ip |-> <<10, 0, 1, 0>>, prefixLen |-> 24],
      [ip |-> <<10, 0, 1, 0>>, prefixLen |-> 30],
      [ip |-> <<10, 0, 1, 0>>, prefixLen |-> 33] }

CIDRLines == { Line(c, sp) : c \in MainCIDRs, sp \in BOOLEAN }

\* no match of the regular expression of -inc-dns in a line
NoMatch == <<>>

\* the lines of the DNS dump, each given by what FindStringSubmatch finds in
\* it after "ipv4addr: ": four dotted decimal fields, or nothing
DNSLines == { Line(m, sp) : m \in InputLiterals \cup {NoMatch}, sp \in BOOLEAN }

\* a configuration file that no run of this model generates
OtherConfig ==
    [Specifics |-> <<Specific(<<192, 168, 0, 1>>, NoParams)>>,
     IncludeRanges |-> <<>>, ExcludeRanges |-> <<>>]

\* the configuration file of a definition without entries
EmptyConfig == [Specifics |-> <<>>, IncludeRanges |-> <<>>, ExcludeRanges |-> <<>>]

\* a file cut to no content
Truncated == [file |-> "empty"]

InitMain ==
    /\ SetInit /\ OrderIdle /\ CombineIdle /\ DefInit /\ CallIdle /\ CodecIdle /\ GetIdle
    /\ TailIdle
    /\ flagIdx = 1
    /\ opened = FALSE
    /\ status = "running"
    /\ dryRun \in BOOLEAN
    /\ addressBlackList = {}
    /\ addressWhiteList = {}
    /\ nLines = 0
    /\ excludedCIDRs = {}
    /\ excludeListed = {}
    /\ destContent \in {NoFile, EmptyConfig, OtherConfig}
    /\ destAtStart = destContent
    /\ writeCalled = FALSE
    /\ sendCalled = FALSE
    /\ printed = <<>>

\* what the run leaves alone apart from main's own variables and def's lists
mainRest == <<defPanicked, merged, rangeSet, excludeSet, nEntries, setVars, orderVars,
              combineVars, callVars, codecVars, getVars, tailVars>>

\* what a step before the end of main leaves alone
mainFiles == <<dryRun, destContent, destAtStart, writeCalled, sendCalled, printed>>

\* the flag main has come to is empty: its block is skipped
SkipFlag ==
    /\ status = "running" /\ flagIdx <= Len(Flags) /\ ~opened
    /\ flagIdx' = flagIdx + 1
    /\ UNCHANGED <<opened, status, addressBlackList, addressWhiteList, nLines,
                   excludedCIDRs, excludeListed, mainFiles, Specifics, IncludeRanges,
                   ExcludeRanges, mainRest>>

\* getScanner opens the file of the flag (for -inc-hexnnmi: the pipe of the
\* perl command)
OpenFile ==
    /\ status = "running" /\ flagIdx <= Len(Flags) /\ ~opened
    /\ opened' = TRUE
    /\ UNCHANGED <<flagIdx, status, addressBlackList, addressWhiteList, nLines,
                   excludedCIDRs, excludeListed, mainFiles, Specifics, IncludeRanges,
                   ExcludeRanges, mainRest>>

\* getScanner fails to open the file: log.Fatalf
OpenFails ==
    /\ status = "running" /\ flagIdx <= Len(Flags) /\ ~opened
    /\ Flags[flagIdx] # "inc-hexnnmi"
    /\ status' = "fatal"
    /\ UNCHANGED <<flagIdx, opened, addressBlackList, addressWhiteList, nLines,
                   excludedCIDRs, excludeListed, mainFiles, Specifics, IncludeRanges,
                   ExcludeRanges, mainRest>>

\* s.Scan() finds no further line
EndOfFile ==
    /\ status = "running" /\ flagIdx <= Len(Flags) /\ opened
    /\ opened' = FALSE
    /\ flagIdx' = flagIdx + 1
    /\ UNCHANGED <<status, addressBlackList, addressWhiteList, nLines,
                   excludedCIDRs, excludeListed, mainFiles, Specifics, IncludeRanges,
                   ExcludeRanges, mainRest>>

\* s.Scan() finds a line of the file of flag
Scanning(flag) ==
    /\ status = "running" /\ flagIdx <= Len(Flags) /\ opened
    /\ Flags[flagIdx] = flag
    /\ ~defPanicked
    /\ nLines < MaxLines
    /\ nLines' = nLines + 1

\* one line of the -inc-cidr file
ScanIncludeCIDR(line) ==
    /\ Scanning("inc-cidr")
    /\ LET cidr == TrimSpace(line)
       IN  \E res \in { getRange(cidr.text) } :
            /\ defPanicked' = res.panic
            /\ status' = IF res.panic THEN "fatal" ELSE status
            /\ IncludeRanges' =
                    IF res.panic \/ res.err THEN IncludeRanges
                    ELSE AppendIncludeRange(IncludeRanges, IPString(res.Begin),
                                            IPString(res.End))
    /\ UNCHANGED <<flagIdx, opened, addressBlackList, addressWhiteList,
                   excludedCIDRs, excludeListed, mainFiles, Specifics, ExcludeRanges,
                   merged, rangeSet, excludeSet, nEntries, setVars, orderVars,
                   combineVars, callVars, codecVars, getVars, tailVars>>

\* one line of the -exc-cidr file
ScanExcludeCIDR(line) ==
    /\ Scanning("exc-cidr")
    /\ LET cidr == TrimSpace(line)
       IN  /\ \E res \in { getRange(cidr.text) } :
                /\ defPanicked' = res.panic
                /\ status' = IF res.panic THEN "fatal" ELSE status
                /\ ExcludeRanges' =
                        IF res.panic \/ res.err THEN ExcludeRanges
                        ELSE AppendExcludeRange(ExcludeRanges, IPString(res.Begin),
                                                IPString(res.End))
           /\ excludedCIDRs' = excludedCIDRs \cup {cidr.text}
    /\ UNCHANGED <<flagIdx, opened, addressBlackList, addressWhiteList,
                   excludeListed, mainFiles, Specifics, IncludeRanges,
                   merged, rangeSet, excludeSet, nEntries, setVars, orderVars,
                   combineVars, callVars, codecVars, getVars, tailVars>>

\* one line of the -exc-list file: the trimmed line is parsed, the line as
\* scanned becomes the key of addressBlackList
ScanExcludeList(line) ==
    /\ Scanning("exc-list")
    /\ LET ip == TrimSpace(line)
       IN  IF ParseIPString(ip) = NilIP
           THEN UNCHANGED <<addressBlackList, excludeListed>>
           ELSE /\ addressBlackList' = addressBlackList \cup {line}
                /\ excludeListed' = excludeListed \cup {ParseIPString(ip)}
    /\ UNCHANGED <<flagIdx, opened, status, addressWhiteList, excludedCIDRs,
                   mainFiles, Specifics, IncludeRanges, ExcludeRanges, mainRest>>

\* one line of the -inc-list file
ScanIncludeList(line) ==
    /\ Scanning("inc-list")
    /\ \E res \in { addSpecific(Def, TrimSpace(line)) } :
        /\ Specifics' = res.Specifics
        /\ addressWhiteList' = res.addressWhiteList
    /\ UNCHANGED <<flagIdx, opened, status, addressBlackList, excludedCIDRs,
                   excludeListed, mainFiles, IncludeRanges, ExcludeRanges, mainRest>>

\* one line of the -inc-dns file: addSpecific on what the expression matched
ScanIncludeDNS(line) ==
    /\ Scanning("inc-dns")
    /\ IF TrimSpace(line).text = NoMatch
       THEN UNCHANGED <<Specifics, addressWhiteList>>
       ELSE \E res \in { addSpecific(Def, Line(line.text, FALSE)) } :
                /\ Specifics' = res.Specifics
                /\ addressWhiteList' = res.addressWhiteList
    /\ UNCHANGED <<flagIdx, opened, status, addressBlackList, excludedCIDRs,
                   excludeListed, mainFiles, IncludeRanges, ExcludeRanges, mainRest>>

\* one line of the output of the perl command of -inc-hexnnmi
ScanIncludeNNMiHex(line) ==
    /\ Scanning("inc-hexnnmi")
    /\ \E res \in { addSpecific(Def, TrimSpace(line)) } :
        /\ Specifics' = res.Specifics
        /\ addressWhiteList' = res.addressWhiteList
    /\ UNCHANGED <<flagIdx, opened, status, addressBlackList, excludedCIDRs,
                   excludeListed, mainFiles, IncludeRanges, ExcludeRanges, mainRest>>

\* main calls UpdateOpenNMS whatever -dry-run says
UpdatesOpenNMSAlways(dry) == TRUE

\* main calls UpdateOpenNMS: if !dryRun
UpdatesOpenNMS(dry) == ~dry

\* DiscoveryConfiguration.UpdateOpenNMS on the configuration cfg: the file
\* and the calls it leaves, and whether it returned an error; readOK, writeOK,
\* cut and sendOK are the outcomes of ReadFile, WriteFile (cut: a failed
\* WriteFile has emptied the file) and Send
UpdateOpenNMS(cfg, readOK, writeOK, cut, sendOK) ==
    LET unchanged == [destContent |-> destContent, writeCalled |-> FALSE,
                      sendCalled |-> FALSE, err |-> TRUE]
    IN  IF destContent = NoFile THEN unchanged
        ELSE IF ~readOK THEN unchanged
        ELSE IF cfg = destContent THEN unchanged
        ELSE IF ~writeOK
        THEN [destContent |-> IF cut THEN Truncated ELSE destContent,
              writeCalled |-> TRUE, sendCalled |-> FALSE, err |-> TRUE]
        ELSE [destContent |-> cfg, writeCalled |-> TRUE, sendCalled |-> TRUE,
              err |-> ~sendOK]

\* the end of main: Sort, the two log lines, and UpdateOpenNMS
Finish ==
    /\ status = "running" /\ flagIdx = Len(Flags) + 1
    /\ \E cfg \in { Sort(Def) } :
        /\ Specifics' = cfg.Specifics
        /\ IncludeRanges' = cfg.IncludeRanges
        /\ ExcludeRanges' = cfg.ExcludeRanges
        /\ printed' = cfg
        /\ IF UpdatesOpenNMS(dryRun)
           THEN \E readOK, writeOK, cut, sendOK \in BOOLEAN :
                \E res \in { UpdateOpenNMS(cfg, readOK, writeOK, cut, sendOK) } :
                    /\ destContent' = res.destContent
                    /\ writeCalled' = res.writeCalled
                    /\ sendCalled' = res.sendCalled
                    /\ status' = IF res.err THEN "fatal" ELSE "exited"
           ELSE /\ status' = "exited"
                /\ UNCHANGED <<destContent, writeCalled, sendCalled>>
    /\ UNCHANGED <<flagIdx, opened, dryRun, addressBlackList, addressWhiteList, nLines,
                   excludedCIDRs, excludeListed, destAtStart, mainRest>>

NextMain ==
    \/ SkipFlag
    \/ OpenFile
    \/ OpenFails
    \/ EndOfFile
    \/ \E line \in CIDRLines : ScanIncludeCIDR(line)
    \/ \E line \in CIDRLines : ScanExcludeCIDR(line)
    \/ \E line \in ListLines : ScanExcludeList(line)
    \/ \E line \in ListLines : ScanIncludeList(line)
    \/ \E line \in DNSLines : ScanIncludeDNS(line)
    \/ \E line \in ListLines : ScanIncludeNNMiHex(line)
    \/ Finish

SpecMain == InitMain /\ [][NextMain]_vars

(***************************************************************************)
(* SpecUpdate: one call of DiscoveryConfiguration.UpdateOpenNMS, taken     *)
(* statement by statement, with every outcome of the file and network      *)
(* calls it makes.                                                         *)
(***************************************************************************)
\* the configurations the call is made on and the file may hold: one per
\* specific, one without entries, and one of another origin
UpdConfigs ==
    { [Specifics |-> <<Specific(ip, NoParams)>>, IncludeRanges |-> <<>>,
       ExcludeRanges |-> <<>>] : ip \in InputIPs }
        \cup {EmptyConfig, OtherConfig}

\* the event ports: the default of -onms-port and that of TestUpateOpenNMS
UpdPorts == {5817, 50817}

\* a new(DiscoveryConfiguration) that xml.Unmarshal left as it was
ZeroConfiguration == [Definitions |-> <<>>]

\* xml.Unmarshal(current_bytes, current): an empty file leaves current as it is
Unmarshal(content) == IF content = Truncated THEN ZeroConfiguration ELSE content

\* the event UpdateOpenNMS builds
ReloadEvent ==
    [UEI |-> "uei.opennms.org/internal/reloadDaemonConfig",
     Source |-> "DiscoverConfigGenerator",
     Parameters |-> <<[Name |-> "daemonName", Content |-> "Discovery"]>>]

InitUpdate ==
    /\ SetInit /\ OrderIdle /\ CombineIdle /\ DefInit /\ CallIdle /\ CodecIdle /\ GetIdle
    /\ MainIdle
    /\ defAttrs = <<>> /\ loadedAttrs = <<>> /\ relations = <<>>
    /\ updPC = "Stat"
    /\ updCfg \in UpdConfigs
    /\ updPort \in UpdPorts
    /\ updDest \in UpdConfigs \cup {NoFile, Truncated}
    /\ updDestAtCall = updDest
    /\ updCurrent = <<>>
    /\ updRead = "untried"
    /\ updWrite = "untried"
    /\ updSend = "untried"
    /\ updErr = "pending"
    /\ updReceived = <<>>

\* what no statement of the call touches
updRest == <<updCfg, updPort, updDestAtCall, coreVars, codecVars, getVars, mainVars,
             mergeVars, relVars>>

\* os.Stat(dest): the call returns an error when there is no such file
StatDest ==
    /\ updPC = "Stat"
    /\ IF updDest = NoFile
       THEN /\ updErr' = "discovery configuration file not found"
            /\ updPC' = "returned"
       ELSE /\ updPC' = "ReadFile"
            /\ UNCHANGED updErr
    /\ UNCHANGED <<updDest, updCurrent, updRead, updWrite, updSend, updReceived, updRest>>

\* ioutil.ReadFile(dest) and xml.Unmarshal: an error is returned when the
\* file cannot be read
ReadDest(ok) ==
    /\ updPC = "ReadFile"
    /\ IF ok
       THEN /\ updCurrent' = Unmarshal(updDest)
            /\ updRead' = "ok"
            /\ updPC' = "compare"
            /\ UNCHANGED updErr
       ELSE /\ updRead' = "failed"
            /\ updErr' = "cannot read discovery configuration"
            /\ updPC' = "returned"
            /\ UNCHANGED updCurrent
    /\ UNCHANGED <<updDest, updWrite, updSend, updReceived, updRest>>

\* if cfg.String() == current.String(): an error is returned
CompareConfigs ==
    /\ updPC = "compare"
    /\ IF updCfg = updCurrent
       THEN /\ updErr' = "there are no differences"
            /\ updPC' = "returned"
       ELSE /\ updPC' = "WriteFile"
            /\ UNCHANGED updErr
    /\ UNCHANGED <<updDest, updCurrent, updRead, updWrite, updSend, updReceived, updRest>>

\* the event is built and sent whether or not the file was written
AfterWriteFileSends(ok) == "Send"

\* the statement after os.WriteFile: the return of the error, or the event
AfterWriteFile(ok) == IF ok THEN "Send" ELSE "returned"

\* os.WriteFile(dest, cfg.String()): cut tells whether a failed write has
\* emptied the file
WriteDest(ok, cut) ==
    /\ updPC = "WriteFile"
    /\ updDest' = IF ok THEN updCfg ELSE IF cut THEN Truncated ELSE updDest
    /\ updWrite' = IF ok THEN "ok" ELSE "failed"
    /\ updErr' = IF ok THEN updErr ELSE "cannot write discovery configuration"
    /\ updPC' = AfterWriteFile(ok)
    /\ UNCHANGED <<updCurrent, updRead, updSend, updReceived, updRest>>

\* log.Add(event) and return log.Send("127.0.0.1", onmsPort): net.Dial, then
\* conn.Write of the marshalled log; the error of Send is what the call returns
SendLog(outcome) ==
    /\ updPC = "Send"
    /\ updSend' = outcome
    /\ updReceived' =
            IF outcome = "sent"
            THEN Append(updReceived, [target |-> "127.0.0.1", port |-> updPort,
                                      Events |-> <<ReloadEvent>>])
            ELSE updReceived
    /\ updErr' = IF outcome = "sent" THEN "nil" ELSE outcome
    /\ updPC' = "returned"
    /\ UNCHANGED <<updDest, updCurrent, updRead, updWrite, updRest>>

NextUpdate ==
    \/ StatDest
    \/ \E ok \in BOOLEAN : ReadDest(ok)
    \/ CompareConfigs
    \/ \E ok, cut \in BOOLEAN : WriteDest(ok, cut)
    \/ \E outcome \in {"sent", "dial failed", "write failed"} : SendLog(outcome)

SpecUpdate == InitUpdate /\ [][NextUpdate]_vars

(***************************************************************************)
(* SpecMerge: a Definition loaded as a whole (as from the XML file), with  *)
(* well-formed entries in any order and scan parameters on its specifics,  *)
(* on which Merge is called, each call recorded as in SpecEntries.         *)
(***************************************************************************)
\* the sequences of at most n elements of S
SeqsUpTo(S, n) == UNION { [1..k -> S] : k \in 0..n }

LoadedSpecifics == { Specific(ip, p) : ip \in InputIPs, p \in InputParams }

LoadedIncludeRanges ==
    { r \in { IncludeRange(b, e, NoParams) : b \in InputIPs, e \in InputIPs } :
        /\ IP2Int(r.Begin) <= IP2Int(r.End)
        /\ IP2Int(r.End) - IP2Int(r.Begin) < MaxRangeLen }

LoadedExcludeRanges ==
    { r \in { ExcludeRange(b, e, "") : b \in InputIPs, e \in InputIPs } :
        /\ IP2Int(r.Begin) <= IP2Int(r.End)
        /\ IP2Int(r.End) - IP2Int(r.Begin) < MaxRangeLen }

\* the attributes, detectors and include URLs a loaded definition may have
LoadedAttrs ==
    { [Location |-> "", Retries |-> 0, Timeout |-> 0, ForeignSource |-> "",
       ChunkSize |-> 0, Detectors |-> <<>>, IncludeURLs |-> <<>>],
      [Location |-> "MINION", Retries |-> 1, Timeout |-> 2000,
       ForeignSource |-> "ApexOffice", ChunkSize |-> 100,
       Detectors |-> <<"ReverseDNS", "SNMP">>,
       IncludeURLs |-> <<"file:/opt/opennms/etc/include.txt">>] }

InitMerge ==
    /\ SetInit /\ OrderIdle /\ CombineIdle /\ CodecIdle /\ GetIdle /\ MainIdle /\ UpdIdle
    /\ Specifics \in SeqsUpTo(LoadedSpecifics, MaxLoaded)
    /\ IncludeRanges \in SeqsUpTo(LoadedIncludeRanges, MaxLoaded - Len(Specifics))
    /\ ExcludeRanges \in SeqsUpTo(LoadedExcludeRanges,
                                   MaxLoaded - Len(Specifics) - Len(IncludeRanges))
    /\ defPanicked = FALSE
    /\ merged = FALSE
    /\ rangeSet = <<>>
    /\ excludeSet = <<>>
    /\ nEntries = Len(Specifics) + Len(IncludeRanges) + Len(ExcludeRanges)
    /\ CallIdle
    /\ relations = <<>>
    /\ defAttrs \in LoadedAttrs
    /\ loadedAttrs = defAttrs

\* def.Merge(), recorded
CallMerge ==
    /\ ~defPanicked
    /\ nCalls < MaxMerges
    /\ \E res \in { Merge(Def) } :
           /\ Specifics' = res.Specifics
           /\ IncludeRanges' = res.IncludeRanges
           /\ ExcludeRanges' = res.ExcludeRanges
           /\ defPanicked' = res.panic
           /\ merged' = ~res.panic
           /\ rangeSet' = res.rangeSet
           /\ excludeSet' = res.excludeSet
    /\ lastCall' = [op |-> "Merge"]
    /\ prevDef' = Def
    /\ returned' = "nothing"
    /\ nCalls' = nCalls + 1
    /\ UNCHANGED <<nEntries, setVars, orderVars, combineVars, codecVars, getVars,
                   mainVars, updVars, mergeVars, relVars>>

NextMerge == CallMerge

SpecMerge == InitMerge /\ [][NextMerge]_vars

(***************************************************************************)
(* SpecBuild: one Definition, empty at first, built through AddSpecific,   *)
(* AddIncludeRange, AddExcludeRange, IncludeCIDR and ExcludeCIDR and        *)
(* merged, each call recorded as in SpecEntries.                           *)
(***************************************************************************)
InitBuild == SetInit /\ OrderIdle /\ CombineIdle /\ DefInit /\ CallIdle /\ RestIdle

NextBuild ==
    \/ \E specific \in InputLiterals : CallAddSpecific(specific)
    \/ \E be \in InputRangeLiterals : CallAddIncludeRange(be[1], be[2])
    \/ \E be \in InputRangeLiterals : CallAddExcludeRange(be[1], be[2])
    \/ \E cidr \in InputCIDRs : CallIncludeCIDR(cidr)
    \/ \E cidr \in InputCIDRs : CallExcludeCIDR(cidr)
    \/ CallMerge

SpecBuild == InitBuild /\ [][NextBuild]_vars

(***************************************************************************)
(* SpecContain: a Definition with up to two well-formed exclude ranges, on *)
(* which one of the two exclusion tests is called: ExcludeRangesContain    *)
(* with a string, or excludeRangesContain with the integer of an address.  *)
(* Every address is in the form net.ParseIP gives it, which is how         *)
(* AddExcludeRange and the XML decoder store the ends of a range.          *)
(***************************************************************************)
\* the strings given to ExcludeRangesContain
ContainStrings == { Line(text, space) : text \in InputLiterals, space \in BOOLEAN }

InitContain ==
    /\ SetInit /\ OrderIdle /\ CombineIdle /\ RestIdle
    /\ Specifics = <<>>
    /\ IncludeRanges = <<>>
    /\ ExcludeRanges \in SeqsUpTo(LoadedExcludeRanges, 2)
    /\ defPanicked = FALSE
    /\ merged = FALSE
    /\ rangeSet = <<>>
    /\ excludeSet = <<>>
    /\ nEntries = Len(ExcludeRanges)
    /\ CallIdle

\* def.ExcludeRangesContain(ipaddr), recorded
CallExcludeRangesContain(ipaddr) ==
    /\ nCalls = 0
    /\ lastCall' = [op |-> "ExcludeRangesContain", ipaddr |-> ipaddr]
    /\ prevDef' = Def
    /\ returned' = ExcludeRangesContain(Def, ipaddr)
    /\ nCalls' = nCalls + 1
    /\ UNCHANGED <<defVars, setVars, orderVars, combineVars, restVars>>

\* def.excludeRangesContain(IP2Int(ip)), recorded
CallExcludeRangesContainInt(ip) ==
    /\ nCalls = 0
    /\ lastCall' = [op |-> "excludeRangesContain", ip |-> ip]
    /\ prevDef' = Def
    /\ returned' = excludeRangesContain(Def, IP2Int(ip))
    /\ nCalls' = nCalls + 1
    /\ UNCHANGED <<defVars, setVars, orderVars, combineVars, restVars>>

NextContain ==
    \/ \E ipaddr \in ContainStrings : CallExcludeRangesContain(ipaddr)
    \/ \E ip \in InputIPs : CallExcludeRangesContainInt(ip)

SpecContain == InitContain /\ [][NextContain]_vars

(***************************************************************************)
(* SpecRelate: the relation methods of IPAddressRange are called on a pair *)
(* of well-formed intervals, each way round.                               *)
(***************************************************************************)
InitRelate ==
    /\ SetInit /\ OrderIdle /\ DefInit /\ CallIdle /\ CodecIdle /\ GetIdle /\ MainIdle
    /\ UpdIdle
    /\ defAttrs = <<>> /\ loadedAttrs = <<>>
    /\ cmbRecv \in { r \in InputRanges : WellFormed(r) }
    /\ cmbArg \in { r \in InputRanges : WellFormed(r) }
    /\ cmbOut = <<>>
    /\ relations = <<>>

\* what the relation methods return for r.Method(ipr)
Relations(r, ipr) ==
    [ComesBefore |-> ComesBefore(r, ipr), ComesAfter |-> ComesAfter(r, ipr),
     Overlaps |-> Overlaps(r, ipr), AdjacentJoins |-> AdjacentJoins(r, ipr),
     ContainsBegin |-> Contains(r, ipr.Begin), ContainsEnd |-> Contains(r, ipr.End)]

\* the methods are called on cmbRecv with cmbArg, and on cmbArg with cmbRecv
Relate ==
    /\ relations = <<>>
    /\ relations' = [fwd |-> Relations(cmbRecv, cmbArg), rev |-> Relations(cmbArg, cmbRecv)]
    /\ UNCHANGED <<coreVars, codecVars, getVars, mainVars, updVars, mergeVars>>

NextRelate == Relate

SpecRelate == InitRelate /\ [][NextRelate]_vars

(***************************************************************************)
(* Properties.                                                             *)
(***************************************************************************)
\* the (begin, end) pairs of a sequence of intervals, as integers
Pairs(s) == [k \in 1..Len(s) |-> <<IP2Int(s[k].Begin), IP2Int(s[k].End)>>]

\* every interval begins more than one address after the end of the one before
NeighboursApart(p) == \A k \in 1..(Len(p) - 1) : p[k + 1][1] > p[k][2] + 1

\* strictly ascending by begin
AscendingByBegin(p) == \A k \in 1..(Len(p) - 1) : p[k][1] < p[k + 1][1]

\* no two intervals of p share an address or touch
PairwiseApart(p) ==
    \A j \in 1..Len(p), k \in 1..Len(p) :
        j < k => (p[j][2] + 1 < p[k][1] \/ p[k][2] + 1 < p[j][1])

\* C1: after every Add call that returned, every interval returned by Get
\* begins more than one address after the end of its left neighbour
\* (no two neighbours overlap or are adjacent).
C1_Disjoint == (~panicked) => NeighboursApart(Pairs(Get(ipRanges)))

\* C2: an Add call on a sorted set leaves the set sorted strictly ascending
\* by begin.
C2_StaysSorted ==
    (nAdds > 0 /\ ~panicked /\ AscendingByBegin(Pairs(prevRanges)))
        => AscendingByBegin(Pairs(Get(ipRanges)))

\* C3: no Add call with a well-formed interval ends in a runtime panic.
C3_NoPanic == ~panicked

\* C4: two fresh sets given the same intervals, each in its own order, end
\* with the same sequence of (begin, end) pairs.
C4_OrderIndependent ==
    (todoA = {} /\ todoB = {} /\ ~orderPanic) => Pairs(Get(setA)) = Pairs(Get(setB))

C6_TwoIntervals ==
    (nAdds > 0 /\ Len(prevRanges) = 1) =>
        LET a == IP2Int(prevRanges[1].Begin)
            b == IP2Int(prevRanges[1].End)
            c == IP2Int(lastAdd.Begin)
            d == IP2Int(lastAdd.End)
            lo == IF a < c THEN a ELSE c
            hi == IF b > d THEN b ELSE d
        IN  /\ ~panicked
            /\ Pairs(Get(ipRanges)) =
                    IF c <= b + 1 /\ a <= d + 1 THEN << <<lo, hi>> >>
                    ELSE IF b < c THEN << <<a, b>>, <<c, d>> >>
                    ELSE << <<c, d>>, <<a, b>> >>

\* witness of C6: an interval was added right after the end of the only
\* interval of the set, and the set holds their union
C6_Witness ==
    /\ nAdds > 0
    /\ Len(prevRanges) = 1
    /\ IP2Int(lastAdd.Begin) = IP2Int(prevRanges[1].End) + 1
    /\ Pairs(ipRanges) = << <<IP2Int(prevRanges[1].Begin), IP2Int(lastAdd.End)>> >>

IncludePairs ==
    [k \in 1..Len(Specifics) |-> <<IP2Int(Specifics[k].IP), IP2Int(Specifics[k].IP)>>]
        \o Pairs(IncludeRanges)

\* C8: after Merge the specifics and include ranges are pairwise
\* non-overlapping and non-adjacent, and so are the exclude ranges.
C8_MinimalCover ==
    merged => (PairwiseApart(IncludePairs) /\ PairwiseApart(Pairs(ExcludeRanges)))

\* C9: after Merge the include set, the specifics, the include ranges and
\* the exclude ranges are each in ascending address order.
C9_Ascending ==
    merged =>
        /\ AscendingByBegin(Pairs(rangeSet))
        /\ \A k \in 1..(Len(Specifics) - 1) :
                IP2Int(Specifics[k].IP) < IP2Int(Specifics[k + 1].IP)
        /\ AscendingByBegin(Pairs(IncludeRanges))
        /\ AscendingByBegin(Pairs(ExcludeRanges))

\* C10: after Merge every interval of the include set with begin = end is a
\* specific, every other interval is an include range, nothing else is
\* written, and every include range has begin < end.
C10_Partition ==
    merged =>
        /\ Len(Specifics) + Len(IncludeRanges) = Len(rangeSet)
        /\ \A k \in 1..Len(rangeSet) :
                IF IP2Int(rangeSet[k].Begin) = IP2Int(rangeSet[k].End)
                THEN \E j \in 1..Len(Specifics) : Specifics[j].IP = rangeSet[k].Begin
                ELSE \E j \in 1..Len(IncludeRanges) :
                        /\ IncludeRanges[j].Begin = rangeSet[k].Begin
                        /\ IncludeRanges[j].End = rangeSet[k].End
        /\ \A j \in 1..Len(IncludeRanges) :
                IP2Int(IncludeRanges[j].Begin) < IP2Int(IncludeRanges[j].End)
        /\ Len(Specifics) =
                Cardinality({ k \in 1..Len(rangeSet) :
                                IP2Int(rangeSet[k].Begin) = IP2Int(rangeSet[k].End) })

\* witness of C10: a Merge wrote both specifics and include ranges, one of the
\* include ranges made of entries it collapsed
C10_Witness ==
    /\ merged
    /\ Len(Specifics) >= 1
    /\ Len(IncludeRanges) >= 1
    /\ Len(rangeSet) < nEntries

\* the addresses (as integers) of the include ranges and of the specifics
IncludedAddrs ==
    UNION { IP2Int(IncludeRanges[k].Begin)..IP2Int(IncludeRanges[k].End) :
                k \in 1..Len(IncludeRanges) }
        \cup { IP2Int(Specifics[k].IP) : k \in 1..Len(Specifics) }

\* the addresses (as integers) of the exclude ranges
ExcludedAddrs ==
    UNION { IP2Int(ExcludeRanges[k].Begin)..IP2Int(ExcludeRanges[k].End) :
                k \in 1..Len(ExcludeRanges) }

\* no two of the include ranges and specifics share an address
EntriesDisjoint ==
    \A j \in 1..Len(IncludePairs), k \in 1..Len(IncludePairs) :
        j < k => (IncludePairs[j][2] < IncludePairs[k][1]
                    \/ IncludePairs[k][2] < IncludePairs[j][1])

\* C11: on a definition whose include ranges and specifics are pairwise
\* disjoint, GetTotalEstimatedAddresses returns the number of addresses that
\* lie in an include range or are a specific and lie in no exclude range.
C11_EstimateDisjoint ==
    (lastCall.op = "GetTotalEstimatedAddresses" /\ EntriesDisjoint)
        => returned = Cardinality(IncludedAddrs \ ExcludedAddrs)

\* witness of C11: the total was taken of a definition with an include
\* range and a specific that share no address, and an exclude range that
\* covers some of the included addresses and one address that is not included
C11_Witness ==
    /\ lastCall.op = "GetTotalEstimatedAddresses"
    /\ EntriesDisjoint
    /\ Len(IncludeRanges) >= 1
    /\ Len(Specifics) >= 1
    /\ Len(ExcludeRanges) >= 1
    /\ (IncludedAddrs \cap ExcludedAddrs) # {}
    /\ (ExcludedAddrs \ IncludedAddrs) # {}
    /\ (IncludedAddrs \ ExcludedAddrs) # {}

\* C12: on every definition GetTotalEstimatedAddresses returns the number
\* of distinct addresses that lie in an include range or are a specific and
\* lie in no exclude range.
C12_EstimateDistinct ==
    (lastCall.op = "GetTotalEstimatedAddresses")
        => returned = Cardinality(IncludedAddrs \ ExcludedAddrs)

\* the latest call was an entry call given a literal that is not an address
BadLiteralCall ==
    \/ lastCall.op = "AddSpecific" /\ lastCall.specific \notin InputIPs
    \/ /\ lastCall.op \in {"AddIncludeRange", "AddExcludeRange"}
       /\ (lastCall.begin \notin InputIPs \/ lastCall.end \notin InputIPs)

\* C17: an entry call given a literal that is not an address returns an
\* InvalidAddress outcome to its caller.
C17_InvalidAddressReturned == BadLiteralCall => returned = "InvalidAddress"

\* C18: an entry call given a literal that is not an address leaves the three
\* lists as they were; given addresses (begin <= end for a range) it appends
\* that one entry to its own list and leaves the other two lists as they were.
C18_EntryFrame ==
    /\ BadLiteralCall => Def = prevDef
    /\ (lastCall.op = "AddSpecific" /\ lastCall.specific \in InputIPs) =>
            /\ Specifics = Append(prevDef.Specifics, Specific(lastCall.specific, NoParams))
            /\ IncludeRanges = prevDef.IncludeRanges
            /\ ExcludeRanges = prevDef.ExcludeRanges
    /\ (/\ lastCall.op = "AddIncludeRange"
        /\ lastCall.begin \in InputIPs
        /\ lastCall.end \in InputIPs
        /\ IP2Int(lastCall.begin) <= IP2Int(lastCall.end)) =>
            /\ IncludeRanges = Append(prevDef.IncludeRanges,
                                      IncludeRange(lastCall.begin, lastCall.end, NoParams))
            /\ Specifics = prevDef.Specifics
            /\ ExcludeRanges = prevDef.ExcludeRanges
    /\ (/\ lastCall.op = "AddExcludeRange"
        /\ lastCall.begin \in InputIPs
        /\ lastCall.end \in InputIPs
        /\ IP2Int(lastCall.begin) <= IP2Int(lastCall.end)) =>
            /\ ExcludeRanges = Append(prevDef.ExcludeRanges,
                                      ExcludeRange(lastCall.begin, lastCall.end, ""))
            /\ Specifics = prevDef.Specifics
            /\ IncludeRanges = prevDef.IncludeRanges

\* witness of C18: a definition that holds a specific and an include range
\* was given a literal that is not an address
C18_Witness ==
    /\ BadLiteralCall
    /\ Len(prevDef.Specifics) >= 1
    /\ Len(prevDef.IncludeRanges) >= 1

\* the address has been converted to its integer and back
Decoded == codecOut # <<-1>>

\* C15: Int2IP(IP2Int(a)) is the address a, byte for byte.
C15_RoundTrip == Decoded => codecOut = codecIn

\* the latest call was given a CIDR literal of an IPv4 address with a prefix
\* length of 0 to 32
WellFormedCIDRCall ==
    /\ lastCall.op \in {"getRange", "IncludeCIDR", "ExcludeCIDR"}
    /\ Len(lastCall.cidr.ip) = IPv4len
    /\ \A k \in 1..IPv4len : lastCall.cidr.ip[k] \in 0..(ByteBase - 1)
    /\ lastCall.cidr.prefixLen \in 0..(8 * IPv4len)

\* the number of addresses of the block of the latest call's CIDR
BlockSize == 2^(8 * IPv4len - lastCall.cidr.prefixLen)

\* the network address of the latest call's CIDR, as an integer
NetworkInt ==
    LET a == ((lastCall.cidr.ip[1] * ByteBase + lastCall.cidr.ip[2]) * ByteBase
                + lastCall.cidr.ip[3]) * ByteBase + lastCall.cidr.ip[4]
    IN  a - (a % BlockSize)

\* the integer of the 4-byte address ip
QuadInt(ip) == ((ip[1] * ByteBase + ip[2]) * ByteBase + ip[3]) * ByteBase + ip[4]

\* C13: for a well-formed CIDR literal getRange returns, as addresses, the
\* integer of the network address plus one and the integer of the last
\* address of the block minus one.
C13_UsableRange ==
    (lastCall.op = "getRange" /\ WellFormedCIDRCall) =>
        /\ ~defPanicked
        /\ ~returned.err
        /\ Len(returned.Begin) = IPv4len
        /\ Len(returned.End) = IPv4len
        /\ QuadInt(returned.Begin) = NetworkInt + 1
        /\ QuadInt(returned.End) = NetworkInt + BlockSize - 1 - 1

\* C14: for a CIDR whose host portion is 0 or 1 bit getRange returns a range
\* whose end lies before its begin, and IncludeCIDR and ExcludeCIDR return
\* with the definition as it was.
C14_TinyCIDR ==
    (WellFormedCIDRCall /\ lastCall.cidr.prefixLen >= 8 * IPv4len - 1) =>
        /\ ~defPanicked
        /\ lastCall.op = "getRange" =>
                /\ ~returned.err
                /\ IP2Int(returned.End) < IP2Int(returned.Begin)
        /\ lastCall.op \in {"IncludeCIDR", "ExcludeCIDR"} => Def = prevDef

\* C16: a sequence Get returned keeps its length and its contents when Add is
\* called on the set afterwards
C16_SnapshotKept ==
    (snapTaken /\ ~getPanic) => (Len(Snapshot) = snapLen /\ Snapshot = snapOrig)

\* the CIDR literal cidr is well formed and the address ip lies in its block
InsideCIDR(ip, cidr) ==
    /\ cidr.ip \in InputIPs
    /\ cidr.prefixLen \in 0..(8 * IPv4len)
    /\ LET size == 2^(8 * IPv4len - cidr.prefixLen)
           net  == QuadInt(cidr.ip) - (QuadInt(cidr.ip) % size)
       IN  QuadInt(ip) \in net..(net + size - 1)

\* C19: no specific of the definition of a run of the tool is an address read
\* from the exclude list, with or without white space around it, or an
\* address inside a CIDR read from the -exc-cidr file
C19_ExcludedNeverSpecific ==
    \A k \in 1..Len(Specifics) :
        /\ Specifics[k].IP \notin excludeListed
        /\ \A cidr \in excludedCIDRs : ~InsideCIDR(Specifics[k].IP, cidr)

\* C20: with -dry-run the tool writes no file and sends no event, whatever
\* path main takes, and once it is over it has printed the configuration
C20_DryRun ==
    dryRun =>
        /\ ~writeCalled
        /\ ~sendCalled
        /\ destContent = destAtStart
        /\ status # "fatal" \/ flagIdx <= Len(Flags)
        /\ status = "exited" => printed = Def

\* a dry run is over, it generated a configuration with a specific, and a
\* configuration file that differs from it was in place
C20_Witness ==
    /\ dryRun
    /\ status = "exited"
    /\ Len(Specifics) > 0
    /\ destAtStart = EmptyConfig

\* C21: in a call of UpdateOpenNMS at most one message is sent, the reload
\* event for the Discovery daemon to 127.0.0.1 and the given port, and only
\* once the file has been replaced by the configuration; when the file is
\* missing, unreadable or unwritable the call returns an error and sends
\* nothing, a missing file is not created, and nil is returned only after a
\* successful write and a successful send
C21_EventAfterWrite ==
    /\ Len(updReceived) <= 1
    /\ Len(updReceived) = 1 =>
            /\ updWrite = "ok"
            /\ updDest = updCfg
            /\ updReceived[1].target = "127.0.0.1"
            /\ updReceived[1].port = updPort
            /\ Len(updReceived[1].Events) = 1
            /\ updReceived[1].Events[1].UEI = "uei.opennms.org/internal/reloadDaemonConfig"
            /\ updReceived[1].Events[1].Parameters =
                    <<[Name |-> "daemonName", Content |-> "Discovery"]>>
    /\ updPC = "returned" =>
            /\ updErr # "pending"
            /\ (updDestAtCall = NoFile \/ updRead = "failed" \/ updWrite = "failed") =>
                    (updErr # "nil" /\ updReceived = <<>> /\ updSend = "untried")
            /\ updDestAtCall = NoFile => (updDest = NoFile /\ updWrite = "untried")
            /\ updErr = "nil" <=> (updWrite = "ok" /\ updSend = "sent")

\* a call that found a different configuration in place, replaced it, sent
\* the event and returned nil
C21_Witness ==
    /\ updPC = "returned"
    /\ updErr = "nil"
    /\ updDestAtCall \in UpdConfigs
    /\ updDestAtCall # updCfg
    /\ updDest = updCfg
    /\ Len(updReceived) = 1

\* the pairs p are ascending and no two neighbours overlap or touch
Canonical(p) == AscendingByBegin(p) /\ NeighboursApart(p)

\* the positions of the pairs of p that overlap or touch the pair q
Hits(p, q) == { k \in 1..Len(p) : p[k][1] <= q[2] + 1 /\ q[1] <= p[k][2] + 1 }

\* the canonical sequence p with the pairs at the positions hits, which
\* follow one another, replaced by the one pair spanning them and q
Spanned(p, q, hits) ==
    LET first == CHOOSE k \in hits : \A j \in hits : k <= j
        last  == CHOOSE k \in hits : \A j \in hits : k >= j
        lo    == IF p[first][1] < q[1] THEN p[first][1] ELSE q[1]
        hi    == IF p[last][2] > q[2] THEN p[last][2] ELSE q[2]
    IN  SubSeq(p, 1, first - 1) \o << <<lo, hi>> >> \o SubSeq(p, last + 1, Len(p))

\* C22: an Add call whose interval overlaps or touches two or more intervals
\* of a sorted set of intervals that are apart returns, and leaves in their
\* place the one interval spanning them and the new one.
C22_Cascade ==
    (/\ nAdds > 0
     /\ Canonical(Pairs(prevRanges))
     /\ Cardinality(Hits(Pairs(prevRanges), Pairs(<<lastAdd>>)[1])) >= 2)
        => /\ ~panicked
           /\ Pairs(Get(ipRanges)) =
                Spanned(Pairs(prevRanges), Pairs(<<lastAdd>>)[1],
                        Hits(Pairs(prevRanges), Pairs(<<lastAdd>>)[1]))

\* the scan parameters an interval carries
ParamsOf(r) ==
    [Location |-> r.Location, Retries |-> r.Retries, Timeout |-> r.Timeout,
     ForeignSource |-> r.ForeignSource]

\* the interval r spans the interval ipr
Spans(r, ipr) ==
    IP2Int(r.Begin) <= IP2Int(ipr.Begin) /\ IP2Int(ipr.End) <= IP2Int(r.End)

\* the latest Add call returned, on a sorted set of intervals that are apart,
\* and its interval overlaps or touches an interval of that set
MergingAdd ==
    /\ nAdds > 0
    /\ ~panicked
    /\ Canonical(Pairs(prevRanges))
    /\ Hits(Pairs(prevRanges), Pairs(<<lastAdd>>)[1]) # {}

MergeKeepsRangeParams ==
    (lastCall.op = "Merge" /\ ~defPanicked) =>
        \A j \in 1..Len(prevDef.IncludeRanges), k \in 1..Len(IncludeRanges) :
            Spans(IncludeRanges[k], prevDef.IncludeRanges[j]) =>
                ParamsOf(IncludeRanges[k]) = ParamsOf(prevDef.IncludeRanges[j])

\* the number of values among bs that are TRUE
CountTrue(bs) == Cardinality({ k \in 1..Len(bs) : bs[k] })

\* C24: for two well-formed intervals a and b exactly one of a.ComesBefore(b),
\* a.ComesAfter(b), a.Overlaps(b) holds; a.ComesBefore(b) iff b.ComesAfter(a);
\* Overlaps and AdjacentJoins give the same both ways round and never hold
\* together; a.Overlaps(b) iff some address lies in both.
C24_Relations ==
    relations # <<>> =>
        LET f == relations.fwd
            r == relations.rev
            a == Pairs(<<cmbRecv>>)[1]
            b == Pairs(<<cmbArg>>)[1]
        IN  /\ CountTrue(<<f.ComesBefore, f.ComesAfter, f.Overlaps>>) = 1
            /\ CountTrue(<<r.ComesBefore, r.ComesAfter, r.Overlaps>>) = 1
            /\ f.ComesBefore <=> r.ComesAfter
            /\ r.ComesBefore <=> f.ComesAfter
            /\ f.Overlaps <=> r.Overlaps
            /\ f.AdjacentJoins <=> r.AdjacentJoins
            /\ ~(f.Overlaps /\ f.AdjacentJoins)
            /\ f.Overlaps <=> (\E n \in a[1]..a[2] : n \in b[1]..b[2])

\* the methods were called on an interval and one that lies strictly inside
\* it: the two overlap although no end of the outer one lies in the inner one
C24_Witness ==
    /\ relations # <<>>
    /\ IP2Int(cmbRecv.Begin) < IP2Int(cmbArg.Begin)
    /\ IP2Int(cmbArg.End) < IP2Int(cmbRecv.End)
    /\ relations.fwd.Overlaps /\ relations.rev.Overlaps
    /\ ~relations.rev.ContainsBegin /\ ~relations.rev.ContainsEnd

\* C25: Merge keeps the two pools apart.  After a Merge call that returned,
\* the specifics and include ranges are the ones Merge leaves for the same
\* definition with any other exclude ranges (none at all included, so no
\* included address went because an exclude range covers it), and the exclude
\* ranges are the ones Merge leaves, when it returns, for the same definition
\* with other specifics or other include ranges.
C25_PoolsIndependent ==
    (lastCall.op = "Merge" /\ ~defPanicked) =>
        /\ \A e \in SeqsUpTo(LoadedExcludeRanges, 1) :
                LET twin == Merge([prevDef EXCEPT !.ExcludeRanges = e])
                IN  /\ twin.Specifics = Specifics
                    /\ twin.IncludeRanges = IncludeRanges
        /\ \A sp \in SeqsUpTo(LoadedSpecifics, 1) :
                LET twin == Merge([prevDef EXCEPT !.Specifics = sp])
                IN  ~twin.panic => twin.ExcludeRanges = ExcludeRanges
        /\ \A inc \in SeqsUpTo(LoadedIncludeRanges, 1) :
                LET twin == Merge([prevDef EXCEPT !.IncludeRanges = inc])
                IN  ~twin.panic => twin.ExcludeRanges = ExcludeRanges

\* witness of C25: a Merge returned on a definition with an exclude range
\* that covers one of its specifics and part of one of its include ranges,
\* and the specific and the whole include range are still there
C25_Witness ==
    /\ lastCall.op = "Merge"
    /\ ~defPanicked
    /\ \E x \in 1..Len(prevDef.ExcludeRanges), s \in 1..Len(prevDef.Specifics),
            i \in 1..Len(prevDef.IncludeRanges) :
            LET lo == IP2Int(prevDef.ExcludeRanges[x].Begin)
                hi == IP2Int(prevDef.ExcludeRanges[x].End)
            IN  /\ IP2Int(prevDef.Specifics[s].IP) \in lo..hi
                /\ IP2Int(prevDef.IncludeRanges[i].Begin) \in lo..hi
                /\ IP2Int(prevDef.IncludeRanges[i].End) \notin lo..hi
                /\ prevDef.Specifics[s] \in { Specifics[k] : k \in 1..Len(Specifics) }
                /\ prevDef.IncludeRanges[i]
                        \in { IncludeRanges[k] : k \in 1..Len(IncludeRanges) }

\* the entry e has its end before its begin, as integers
EndBeforeBegin(e) == IP2Int(e.End) < IP2Int(e.Begin)

\* C26: every include range and exclude range of a definition built through
\* AddSpecific, AddIncludeRange, AddExcludeRange, IncludeCIDR and ExcludeCIDR
\* has begin <= end; a call given a range with end < begin leaves the
\* definition as it was; and every interval Merge passes to Add has
\* begin <= end.
C26_StoredWellFormed ==
    /\ \A k \in 1..Len(IncludeRanges) : ~EndBeforeBegin(IncludeRanges[k])
    /\ \A k \in 1..Len(ExcludeRanges) : ~EndBeforeBegin(ExcludeRanges[k])
    /\ \A r \in MergeAdds(Def) : ~EndBeforeBegin(r)
    /\ (/\ lastCall.op \in {"AddIncludeRange", "AddExcludeRange"}
        /\ ParseIP(lastCall.begin) # NilIP
        /\ ParseIP(lastCall.end) # NilIP
        /\ IP2Int(ParseIP(lastCall.end)) < IP2Int(ParseIP(lastCall.begin)))
            => Def = prevDef
    /\ (/\ lastCall.op \in {"IncludeCIDR", "ExcludeCIDR"}
        /\ ~defPanicked
        /\ ~getRange(lastCall.cidr).err
        /\ EndBeforeBegin(getRange(lastCall.cidr)))
            => Def = prevDef

\* witness of C26: after a Merge that returned on a definition holding an
\* include range, AddIncludeRange was given two addresses with the end before
\* the begin and left the definition as it was
C26_Witness ==
    /\ merged
    /\ rangeSet # <<>>
    /\ Len(IncludeRanges) >= 1
    /\ lastCall.op = "AddIncludeRange"
    /\ ParseIP(lastCall.begin) # NilIP
    /\ ParseIP(lastCall.end) # NilIP
    /\ IP2Int(ParseIP(lastCall.end)) < IP2Int(ParseIP(lastCall.begin))
    /\ Def = prevDef

\* some exclude range of the definition has begin <= ip <= end, the three
\* addresses taken as the numbers their four fields spell
InExcludeRange(ip) ==
    \E k \in 1..Len(ExcludeRanges) :
        /\ QuadInt(ExcludeRanges[k].Begin) <= QuadInt(ip)
        /\ QuadInt(ip) <= QuadInt(ExcludeRanges[k].End)

\* C27: for a valid address a, ExcludeRangesContain(text of a) and
\* excludeRangesContain(IP2Int(a)) return the same, and return true iff some
\* exclude range has begin <= a <= end; for a string that is no address
\* ExcludeRangesContain returns false.
C27_TestsAgree ==
    /\ (lastCall.op = "ExcludeRangesContain"
            /\ ParseIPString(lastCall.ipaddr) # NilIP) =>
            /\ returned = excludeRangesContain(Def, IP2Int(ParseIPString(lastCall.ipaddr)))
            /\ returned = InExcludeRange(ParseIPString(lastCall.ipaddr))
    /\ (lastCall.op = "ExcludeRangesContain"
            /\ ParseIPString(lastCall.ipaddr) = NilIP) => returned = FALSE
    /\ lastCall.op = "excludeRangesContain" =>
            /\ returned = ExcludeRangesContain(Def, Line(lastCall.ip, FALSE))
            /\ returned = InExcludeRange(lastCall.ip)

\* witness of C27: ExcludeRangesContain returned true for an address inside
\* the second exclude range, a range whose ends differ in their third byte,
\* and outside the first
C27_Witness ==
    /\ lastCall.op = "ExcludeRangesContain"
    /\ returned = TRUE
    /\ Len(ExcludeRanges) = 2
    /\ ExcludeRanges[2].Begin[3] # ExcludeRanges[2].End[3]
    /\ QuadInt(ParseIPString(lastCall.ipaddr)) > QuadInt(ExcludeRanges[1].End)
    /\ QuadInt(ParseIPString(lastCall.ipaddr)) > QuadInt(ExcludeRanges[2].Begin)
    /\ QuadInt(ParseIPString(lastCall.ipaddr)) < QuadInt(ExcludeRanges[2].End)

\* the addresses (as integers) of the intervals of the sequence s
Covered(s) == UNION { IP2Int(s[k].Begin)..IP2Int(s[k].End) : k \in 1..Len(s) }

\* C28: after Add calls that all returned, the addresses of the intervals
\* returned by Get are the addresses of the intervals inserted, no interval
\* is there twice, and there are no more intervals than Add calls made.
C28_ExactCover ==
    (~panicked) =>
        /\ Covered(Get(ipRanges)) = inserted
        /\ \A j \in 1..Len(Get(ipRanges)), k \in 1..Len(Get(ipRanges)) :
                j < k => Pairs(Get(ipRanges))[j] # Pairs(Get(ipRanges))[k]
        /\ Len(Get(ipRanges)) <= nAdds

\* the addresses (as integers) of the include ranges and specifics of def
IncludedOf(def) ==
    UNION { IP2Int(def.IncludeRanges[k].Begin)..IP2Int(def.IncludeRanges[k].End) :
                k \in 1..Len(def.IncludeRanges) }
        \cup { IP2Int(def.Specifics[k].IP) : k \in 1..Len(def.Specifics) }

\* the addresses (as integers) of the exclude ranges of def
ExcludedOf(def) ==
    UNION { IP2Int(def.ExcludeRanges[k].Begin)..IP2Int(def.ExcludeRanges[k].End) :
                k \in 1..Len(def.ExcludeRanges) }

\* C29: a Merge that returned leaves the addresses of the specifics and
\* include ranges as they were, the addresses of the exclude ranges as they
\* were, and the detectors, include URLs and attributes as they were; and
\* GetTotalEstimatedAddresses is not larger after it than before it.
C29_MergePreserves ==
    (lastCall.op = "Merge" /\ ~defPanicked) =>
        /\ IncludedOf(Def) = IncludedOf(prevDef)
        /\ ExcludedOf(Def) = ExcludedOf(prevDef)
        /\ defAttrs = loadedAttrs
        /\ GetTotalEstimatedAddresses(Def) <= GetTotalEstimatedAddresses(prevDef)

\* witness of C29: a Merge returned on a definition with detectors and
\* include URLs, an exclude range, and specifics and include ranges that
\* shared addresses, so that the estimate went down
C29_Witness ==
    /\ lastCall.op = "Merge"
    /\ ~defPanicked
    /\ defAttrs.Detectors # <<>>
    /\ defAttrs.IncludeURLs # <<>>
    /\ Len(prevDef.ExcludeRanges) >= 1
    /\ Len(prevDef.Specifics) >= 1
    /\ Len(prevDef.IncludeRanges) >= 1
    /\ Len(Specifics) = 0
    /\ GetTotalEstimatedAddresses(Def) < GetTotalEstimatedAddresses(prevDef)

\* C30: Merge applied to the definition a Merge left gives the same
\* specifics, include ranges and exclude ranges, in the same order.
C30_Idempotent ==
    (lastCall.op = "Merge" /\ nCalls >= 2 /\ ~defPanicked) =>
        /\ Specifics = prevDef.Specifics
        /\ IncludeRanges = prevDef.IncludeRanges
        /\ ExcludeRanges = prevDef.ExcludeRanges

====
